---- MODULE Spec2Model ----
(***************************************************************************)
(* Retrieval-augmented memory engine: the conversation memory             *)
(* (src/llm/memory.rs over src/database/vector_db.rs) and the document    *)
(* insight pipeline (src/providers/document/insights.rs).                 *)
(*                                                                         *)
(* Conventions.  Option<T> is a sequence of length 0 (None) or 1 (Some).  *)
(* Result<T> is a record [ok, val].  Time is counted in seconds.  A       *)
(* vector is a record [len, v]: len is its number of components and v     *)
(* its first two components, all further components being 0.              *)
(***************************************************************************)
EXTENDS Integers, Naturals, Sequences, FiniteSets, TLC

(***************************************************************************)
(* Program constants                                                       *)
(***************************************************************************)
D == 1536
SessionWindowMinutes == 30
SessionSearchLimit == 100
DefaultChunkSize == 1000
CacheCapacity == 100
BatchSize == 20
RecentLimit == 5
SimilarLimit == 10
MaxContextLength == 4000
MaxTopicCacheSize == 1000
TopicAttempts == 3
TopicDays == 1

(***************************************************************************)
(* Bounds of the model                                                     *)
(***************************************************************************)
MaxTime == 3720
MaxUuid == 2
MaxWords == 6
MaxSegments == 2
MaxChunkSize == 4
ScenarioWords == 2500
MaxLead == 101
EarlyPages == 2
MaxObjects == 2
MaxPieces == 3
\* calls of chat() and of the HTTP chat handler in one behaviour, and the
\* uuids drawn while they run
MaxChats == 1
MaxChatUuid == 4
\* pages of the long document, and the number of its first chunks for which
\* a backend call may fail
FanOutPages == 21
MaxFlaky == 1
\* calls of generate_auto_post_topic in one behaviour
MaxTopicCalls == 2

VARIABLES
    now,              \* the wall clock read by Utc::now(), in seconds
    current_session,  \* MemoryManager.current_session : Option<ConversationSession>
    nextUuid,         \* number of uuids handed out by Uuid::new_v4()
    collDim,          \* vector size of the "conversation_memory" collection
    points,           \* points of the "conversation_memory" collection; the field
                      \* rec of a point is history: what store_memory was given
    op,               \* the last operation called and its arguments
    ret,              \* what that operation returned
    chunk_in,         \* DocumentChunker: the (text, chunk_size) given to create_chunks
    chunk_out,        \* DocumentChunker: Option of the chunk list it returned
    chunk_cache,      \* InsightExtractor.chunk_cache: the LruCache, most recently used first
    touched,          \* history: the cache keys ever touched, least recently touched first
    call,             \* the process_document call in progress: its locals and its position
    parse_in,         \* parser: the response given to parse_insights_response
    parse_out,        \* parser: Option of what it returned
    chats,            \* the calls in progress on the shared objects: locals and position of each
    memory_lock,      \* ChatManager.memory, the tokio Mutex around the MemoryManager: Option of its holder
    state_memory,     \* AppState.memory, the RwLock of the HTTP handlers: Option of its writer
    topic_cache       \* TOPIC_CACHE of the tweet composer: the Vec behind its Mutex

memVars == <<now, current_session, nextUuid, collDim, points>>
chunkVars == <<chunk_in, chunk_out>>
xVars == <<chunk_cache, touched, call>>
parseVars == <<parse_in, parse_out>>
taskVars == <<chats, memory_lock, state_memory, topic_cache>>

(***************************************************************************)
(* Values                                                                  *)
(***************************************************************************)
None == <<>>
Some(x) == <<x>>
IsSome(o) == Len(o) = 1
Unwrap(o) == o[1]

Ok(v) == [ok |-> TRUE, val |-> v]
Err(e) == [ok |-> FALSE, val |-> e]

Min(a, b) == IF a <= b THEN a ELSE b

\* Uuid::new_v4().to_string(): the n-th uuid handed out
Uuid(n) == <<"uuid", n>>
DefaultSessionId == <<"default">>
EmptyString == <<>>

\* chrono: Duration::num_minutes() of a duration of d seconds (truncates toward zero)
num_minutes(d) == IF d >= 0 THEN d \div 60 ELSE -((-d) \div 60)

\* chrono: DateTime::to_rfc3339 and DateTime::parse_from_rfc3339
to_rfc3339(t) == <<"rfc3339", t>>
parse_from_rfc3339(s) ==
    IF Len(s) = 2 /\ s[1] = "rfc3339" THEN Some(s[2]) ELSE None

\* serde_json::Value
JString(s) == [kind |-> "String", v |-> s]
JNumber(n) == [kind |-> "Number", v |-> n]
JArray(a) == [kind |-> "Array", v |-> a]
JNull == [kind |-> "Null", v |-> <<>>]

\* Value::as_str: the string of a String value, None for every other value
as_display(j) == Some(j.v)

as_str(j) == IF j.kind = "String" THEN Some(j.v) ELSE None

\* HashMap::get
Get(m, k) == IF k \in DOMAIN m THEN Some(m[k]) ELSE None

\* qdrant::Value::from(serde_json::Value) and serde_json::Value::try_from(qdrant::Value)
QdrantValue(j) ==
    CASE j.kind = "String" -> [kind |-> "StringValue", v |-> j.v]
      [] j.kind = "Number" -> [kind |-> "DoubleValue", v |-> j.v]
      [] j.kind = "Array" -> [kind |-> "ListValue", v |-> j.v]
      [] OTHER -> [kind |-> "NullValue", v |-> <<>>]
JsonValue(q) ==
    CASE q.kind = "StringValue" -> JString(q.v)
      [] q.kind = "DoubleValue" -> JNumber(q.v)
      [] q.kind = "ListValue" -> JArray(q.v)
      [] OTHER -> JNull

(***************************************************************************)
(* Inputs                                                                  *)
(***************************************************************************)
TickDeltas == {(SessionWindowMinutes * 60) - 1, SessionWindowMinutes * 60,
               (SessionWindowMinutes + 1) * 60}
Topics == {"General Conversation"}
Texts == {"ping", "pong"}
Roles == {"user"}
Heads == {<<0, 0>>, <<1, 0>>, <<0, 1>>}
Dims == {D - 1, D}
Vectors == [len : Dims, v : Heads]
ZeroVector(n) == [len |-> n, v |-> <<0, 0>>]
Limits == {0, 1, SessionSearchLimit}

(***************************************************************************)
(* The vector index behind VectorDB (Qdrant, cosine distance)              *)
(***************************************************************************)
Dot(a, b) == (a[1] * b[1]) + (a[2] * b[2])
NormSq(a) == Dot(a, a)

\* cosine score of stored vector a against query q is at least that of b;
\* a vector of norm 0 scores 0
ScoreGE(a, b, q) ==
    LET na == IF NormSq(a) = 0 THEN 1 ELSE NormSq(a)
        nb == IF NormSq(b) = 0 THEN 1 ELSE NormSq(b)
    IN  (Dot(a, q) * Dot(a, q)) * nb >= (Dot(b, q) * Dot(b, q)) * na

\* the orders in which the index may rank its points for query q:
\* descending score, ties in any order
RECURSIVE RankingsOf(_, _)
RankingsOf(rest, q) ==
    IF rest = {} THEN {<<>>}
    ELSE UNION {{<<best>> \o r : r \in RankingsOf(rest \ {best}, q)} :
                   best \in {i \in rest :
                                \A j \in rest :
                                   ScoreGE(points[i].vector.v, points[j].vector.v, q.v)}}

Rankings(q) == RankingsOf(1..Len(points), q)

\* client.upsert_points: the index takes a point only if the request gets
\* through and the vector has the collection's size
UpsertAccepted(vector, netOk) == netOk /\ vector.len = collDim

\* client.search_points: same conditions for a query
SearchAccepted(query, netOk) == netOk /\ query.len = collDim

\* VectorDB::search_vectors: the (id, payload) hits for one ranking r
search_vectors(r, limit) ==
    [i \in 1..Min(limit, Len(points)) |->
        [id |-> points[r[i]].id,
         payload |-> [k \in DOMAIN points[r[i]].payload |->
                         JsonValue(points[r[i]].payload[k])]]]

(***************************************************************************)
(* MemoryManager                                                           *)
(***************************************************************************)
\* the continuation test of get_or_create_session
InWindowLate(session, t) ==
    num_minutes(t - session.last_active) <= SessionWindowMinutes

InWindow(session, t) ==
    num_minutes(t - session.last_active) < SessionWindowMinutes

\* the ConversationSession start_new_session builds
NewSessionOldId(topic) ==
    [id |-> Uuid(1), start_time |-> now, topic |-> topic,
     summary |-> EmptyString, last_active |-> now]

NewSession(topic) ==
    [id |-> Uuid(nextUuid + 1), start_time |-> now, topic |-> topic,
     summary |-> EmptyString, last_active |-> now]

\* the session id store_memory writes into the payload
StoreSessionIdDefault == DefaultSessionId

StoreSessionId ==
    IF IsSome(current_session) THEN Unwrap(current_session).id
    ELSE DefaultSessionId

\* the payload store_memory builds (metadata is None)
MemoryPayload(text, role) ==
    [k \in {"text", "timestamp", "role", "session_id", "importance", "topic_tags"} |->
        CASE k = "text" -> JString(text)
          [] k = "timestamp" -> JString(to_rfc3339(now))
          [] k = "role" -> JString(role)
          [] k = "session_id" -> JString(StoreSessionId)
          [] k = "importance" -> JNumber(1)
          [] OTHER -> JArray(<<>>)]

\* the closure of search_similar's filter_map: Option<Memory> of one hit
DecodeHitSwapped(hit) ==
    LET payload == hit.payload
    IN  Some([text |-> Unwrap(as_str(payload["role"])),
              timestamp |-> Unwrap(parse_from_rfc3339(Unwrap(as_str(payload["timestamp"])))),
              role |-> Unwrap(as_str(payload["text"])), metadata |-> None,
              session_id |-> EmptyString, importance |-> 1, topic_tags |-> <<>>])

DecodeHit(hit) ==
    LET payload == hit.payload
        text == IF IsSome(Get(payload, "text"))
                THEN as_str(Unwrap(Get(payload, "text"))) ELSE None
        tstr == IF IsSome(Get(payload, "timestamp"))
                THEN as_str(Unwrap(Get(payload, "timestamp"))) ELSE None
        timestamp == IF IsSome(tstr) THEN parse_from_rfc3339(Unwrap(tstr)) ELSE None
        role == IF IsSome(Get(payload, "role"))
                THEN as_str(Unwrap(Get(payload, "role"))) ELSE None
    IN  IF IsSome(text) /\ IsSome(timestamp) /\ IsSome(role)
        THEN Some([text |-> Unwrap(text), timestamp |-> Unwrap(timestamp),
                   role |-> Unwrap(role), metadata |-> None,
                   session_id |-> EmptyString, importance |-> 1,
                   topic_tags |-> <<>>])
        ELSE None

RECURSIVE FilterMapDecode(_)
FilterMapDecode(hits) ==
    IF hits = <<>> THEN <<>>
    ELSE DecodeHit(Head(hits)) \o FilterMapDecode(Tail(hits))

\* the filter of search_by_session
RECURSIVE FilterSession(_, _)
FilterSession(memories, session_id) ==
    IF memories = <<>> THEN <<>>
    ELSE (IF Head(memories).session_id = session_id THEN <<Head(memories)>> ELSE <<>>)
         \o FilterSession(Tail(memories), session_id)

SessionIds == {Uuid(n) : n \in 1..MaxUuid} \cup {DefaultSessionId}

\* MemoryManager::new over a collection whose vector size is one of dims
MemStart(dims) ==
    /\ now = 0
    /\ current_session = None
    /\ nextUuid = 0
    /\ collDim \in dims
    /\ points = <<>>
    /\ op = [name |-> "new", args |-> <<>>]
    /\ ret = Ok(<<>>)

\* time passes
Tick(d) ==
    /\ now + d <= MaxTime
    /\ now' = now + d
    /\ op' = [name |-> "tick", args |-> <<d>>]
    /\ ret' = Ok(<<>>)
    /\ UNCHANGED <<current_session, nextUuid, collDim, points>>
    /\ UNCHANGED <<chunkVars, xVars, parseVars, taskVars>>

start_new_session(topic) ==
    /\ nextUuid < MaxUuid
    /\ current_session' = Some(NewSession(topic))
    /\ nextUuid' = nextUuid + 1
    /\ op' = [name |-> "start_new_session", args |-> <<topic>>]
    /\ ret' = Ok(NewSession(topic).id)
    /\ UNCHANGED <<now, collDim, points>>
    /\ UNCHANGED <<chunkVars, xVars, parseVars, taskVars>>

get_or_create_session(topic) ==
    /\ op' = [name |-> "get_or_create_session", args |-> <<topic>>]
    /\ IF IsSome(current_session) /\ InWindow(Unwrap(current_session), now)
       THEN /\ current_session' =
                 Some([Unwrap(current_session) EXCEPT !.last_active = now])
            /\ ret' = Ok(Unwrap(current_session).id)
            /\ UNCHANGED nextUuid
       ELSE /\ nextUuid < MaxUuid
            /\ current_session' = Some(NewSession(topic))
            /\ nextUuid' = nextUuid + 1
            /\ ret' = Ok(NewSession(topic).id)
    /\ UNCHANGED <<now, collDim, points>>
    /\ UNCHANGED <<chunkVars, xVars, parseVars, taskVars>>

store_memory_or_reset(text, role, embedding, netOk) ==
    /\ nextUuid < MaxUuid
    /\ op' = [name |-> "store_memory", args |-> <<text, role, embedding>>]
    /\ IF UpsertAccepted(embedding, netOk)
       THEN /\ nextUuid' = nextUuid + 1
            /\ points' = Append(points,
                    [id |-> Uuid(nextUuid + 1), vector |-> embedding,
                     rec |-> [text |-> text, role |-> role, timestamp |-> now,
                              session_id |-> StoreSessionId],
                     payload |-> [k \in DOMAIN MemoryPayload(text, role) |->
                                     QdrantValue(MemoryPayload(text, role)[k])]])
            /\ ret' = Ok(Uuid(nextUuid + 1))
            /\ UNCHANGED <<current_session, xVars>>
       ELSE /\ UNCHANGED <<nextUuid, points>>
            /\ ret' = Err("Failed to store memory")
            /\ current_session' = None
            /\ chunk_cache' = <<>>
            /\ UNCHANGED <<touched, call>>
    /\ UNCHANGED <<now, collDim>>
    /\ UNCHANGED <<chunkVars, parseVars, taskVars>>

store_memory(text, role, embedding, netOk) ==
    /\ nextUuid < MaxUuid
    /\ op' = [name |-> "store_memory", args |-> <<text, role, embedding>>]
    /\ IF UpsertAccepted(embedding, netOk)
       THEN /\ nextUuid' = nextUuid + 1
            /\ points' = Append(points,
                    [id |-> Uuid(nextUuid + 1), vector |-> embedding,
                     rec |-> [text |-> text, role |-> role, timestamp |-> now,
                              session_id |-> StoreSessionId],
                     payload |-> [k \in DOMAIN MemoryPayload(text, role) |->
                                     QdrantValue(MemoryPayload(text, role)[k])]])
            /\ ret' = Ok(Uuid(nextUuid + 1))
       ELSE /\ UNCHANGED <<nextUuid, points>>
            /\ ret' = Err("Failed to store memory")
    /\ UNCHANGED <<now, current_session, collDim>>
    /\ UNCHANGED <<chunkVars, xVars, parseVars, taskVars>>

search_similar(query_embedding, limit, netOk) ==
    /\ op' = [name |-> "search_similar", args |-> <<query_embedding, limit>>]
    /\ IF SearchAccepted(query_embedding, netOk)
       THEN \E r \in Rankings(query_embedding) :
                ret' = [ok |-> TRUE,
                        val |-> FilterMapDecode(search_vectors(r, limit)),
                        hits |-> search_vectors(r, limit)]
       ELSE ret' = Err("Failed to search memories")
    /\ UNCHANGED memVars
    /\ UNCHANGED <<chunkVars, xVars, parseVars, taskVars>>

search_by_session(session_id, netOk) ==
    /\ op' = [name |-> "search_by_session", args |-> <<session_id>>]
    /\ IF SearchAccepted(ZeroVector(D), netOk)
       THEN \E r \in Rankings(ZeroVector(D)) :
                ret' = [ok |-> TRUE,
                        val |-> FilterSession(
                                   FilterMapDecode(search_vectors(r, SessionSearchLimit)),
                                   session_id),
                        hits |-> search_vectors(r, SessionSearchLimit)]
       ELSE ret' = Err("Failed to search memories")
    /\ UNCHANGED memVars
    /\ UNCHANGED <<chunkVars, xVars, parseVars, taskVars>>

(***************************************************************************)
(* DocumentChunker                                                         *)
(* A text is a record [id, segs]: segs lists, for each segment that        *)
(* text.split("\n\nPage ") yields, the number of words split_whitespace    *)
(* finds in it, and id tells texts of different words apart.  The text of  *)
(* a chunk, words[start..end].join(" "), is the slice [doc, seg, first,    *)
(* last] of the words first..last of segment seg.                          *)
(***************************************************************************)
WordsOf(slice) == (slice.last - slice.first) + 1

\* end of the window that starts at word index start
WindowEndLong(start, chunk_size, nwords) == Min(start + chunk_size + 1, nwords)

WindowEnd(start, chunk_size, nwords) == Min(start + chunk_size, nwords)

\* the while loop over one page: the chunks of words[start..]
RECURSIVE ChunkPage(_, _, _, _, _, _)
ChunkPage(text, seg, page, start, chunk_idx, chunk_size) ==
    IF start < text.segs[seg]
    THEN LET end == WindowEnd(start, chunk_size, text.segs[seg])
         IN  <<[text |-> [doc |-> text.id, seg |-> seg, first |-> start + 1, last |-> end],
                page_number |-> page,
                chunk_index |-> chunk_idx,
                metadata |-> None]>>
             \o ChunkPage(text, seg, page, end, chunk_idx + 1, chunk_size)
    ELSE <<>>

\* one turn of the for loop: start = 0, then the while loop over the page
PageChunksOrBlank(text, seg, page, chunk_idx, chunk_size) ==
    IF text.segs[seg] = 0
    THEN <<[text |-> [doc |-> text.id, seg |-> seg, first |-> 1, last |-> 0],
            page_number |-> page, chunk_index |-> chunk_idx, metadata |-> None]>>
    ELSE ChunkPage(text, seg, page, 0, chunk_idx, chunk_size)

PageChunks(text, seg, page, chunk_idx, chunk_size) ==
    ChunkPage(text, seg, page, 0, chunk_idx, chunk_size)

\* chunk_idx once the chunks here are pushed: it is never reset
IndexRestarts(chunk_idx, here) == 0

IndexAfter(chunk_idx, here) == chunk_idx + Len(here)

\* the for loop over the pages, for the segments seg..last with page the
\* page counter at segment seg; the range is cut in halves, left half first,
\* so that a text of many pages is evaluated at logarithmic depth
RECURSIVE ChunkPages(_, _, _, _, _, _)
ChunkPages(text, seg, last, page, chunk_idx, chunk_size) ==
    IF seg > last THEN <<>>
    ELSE IF seg = last THEN PageChunks(text, seg, page, chunk_idx, chunk_size)
    ELSE LET mid == (seg + last) \div 2
             here == ChunkPages(text, seg, mid, page, chunk_idx, chunk_size)
         IN  here \o ChunkPages(text, mid + 1, last, page + ((mid + 1) - seg),
                                IndexAfter(chunk_idx, here), chunk_size)

create_chunks(text, chunk_size) ==
    ChunkPages(text, 1, Len(text.segs), 1, 0, chunk_size)

\* the texts and window sizes given to the chunker
SegLists == UNION {[1..n -> 0..MaxWords] : n \in 1..MaxSegments}
ChunkInputs ==
    [text : [id : {0}, segs : SegLists], chunk_size : 1..MaxChunkSize]
    \cup {[text |-> [id |-> 0, segs |-> <<ScenarioWords>>], chunk_size |-> DefaultChunkSize]}

ChunkIdle ==
    /\ chunk_in = [text |-> [id |-> 0, segs |-> <<0>>], chunk_size |-> DefaultChunkSize]
    /\ chunk_out = None

ChunkStart ==
    /\ chunk_in \in ChunkInputs
    /\ chunk_out = None

call_create_chunks ==
    /\ chunk_out = None
    /\ chunk_out' = Some(create_chunks(chunk_in.text, chunk_in.chunk_size))
    /\ op' = [name |-> "create_chunks", args |-> <<>>]
    /\ UNCHANGED <<chunk_in, ret>>
    /\ UNCHANGED <<memVars, xVars, parseVars, taskVars>>

ChunkNext == call_create_chunks

(***************************************************************************)
(* lru::LruCache, as InsightExtractor uses it.  The cache is the sequence  *)
(* of its entries, most recently used first.                               *)
(***************************************************************************)
HasKey(cache, key) == \E i \in 1..Len(cache) : cache[i].key = key
EntryOf(cache, key) == CHOOSE e \in {cache[i] : i \in 1..Len(cache)} : e.key = key
Without(cache, key) == SelectSeq(cache, LAMBDA e : e.key # key)
CachedKeys == {chunk_cache[i].key : i \in 1..Len(chunk_cache)}

\* LruCache::put
LruPutUnbounded(cache, key, value) ==
    <<[key |-> key, val |-> value]>> \o Without(cache, key)

LruPut(cache, key, value) ==
    IF HasKey(cache, key)
    THEN <<[key |-> key, val |-> value]>> \o Without(cache, key)
    ELSE IF Len(cache) = CacheCapacity
         THEN <<[key |-> key, val |-> value]>> \o SubSeq(cache, 1, Len(cache) - 1)
         ELSE <<[key |-> key, val |-> value]>> \o cache

\* LruCache::get: the cache after the lookup, and the value found
LruPeek(cache, key) == cache

LruGet(cache, key) ==
    IF HasKey(cache, key) THEN <<EntryOf(cache, key)>> \o Without(cache, key)
    ELSE cache

LruValue(cache, key) ==
    IF HasKey(cache, key) THEN Some(EntryOf(cache, key).val) ELSE None

\* InsightExtractor::cache_chunk and get_cached_chunk
cache_chunk(cache, key, chunk) == LruPut(cache, key, chunk)
get_cached_chunk(cache, key) == LruGet(cache, key)

\* history of touches: key becomes the most recently touched
Touch(t, key) == Append(SelectSeq(t, LAMBDA k : k # key), key)

(***************************************************************************)
(* InsightExtractor::process_document                                      *)
(* A document is a record [lead, body]: lead empty page segments followed  *)
(* by the segments of body (words per segment).  The backend's embedding   *)
(* of a text t is Emb(t).                                                  *)
(***************************************************************************)
TextOf(doc) ==
    [id |-> doc,
     segs |-> [i \in 1..(doc.lead + Len(doc.body)) |->
                  IF i <= doc.lead THEN 0 ELSE doc.body[i - doc.lead]]]

\* format!("page_{}_chunk_{}", page_number, chunk_index)
Key(page, idx) == <<"page", page, "chunk", idx>>
KeyOf(chunk) == Key(chunk.page_number, chunk.chunk_index)

Emb(text) == [of |-> text]

Idle == [pc |-> "idle"]

\* texts.chunks(20): the chunk numbers (from 1) of the batch after the first start chunks
Batch(start, n) == (start + 1)..Min(start + BatchSize, n)

\* chunk_embeddings.into_iter().filter_map(Result::ok) over chunks lo..hi
RECURSIVE OkEmbeddings(_, _, _, _)
OkEmbeddings(chunks, res, lo, hi) ==
    IF lo > hi THEN <<>>
    ELSE (IF res[lo] = "ok" THEN <<Emb(chunks[lo].text)>> ELSE <<>>)
         \o OkEmbeddings(chunks, res, lo + 1, hi)

\* embeddings.as_ref().and_then(|e| e.get(i).cloned()) for the i-th chunk (from 1)
ChunkEmbedding(embeddings, i) ==
    IF i <= Len(embeddings) THEN Some(embeddings[i]) ELSE None

\* the metadata a caller gives to process_document: a serde_json Value; an
\* object is the sequence of its <<key, value>> pairs
JObject(pairs) == [kind |-> "Object", v |-> pairs]
as_object(j) == IF j.kind = "Object" THEN Some(j.v) ELSE None

\* the Map process_chunk builds for every insight of a chunk: page and
\* chunk inserted first, then meta.extend(obj) with the caller's object,
\* whose entries replace those of the same key
InsightMetadata(chunk, metadata) ==
    LET obj == IF IsSome(metadata) THEN as_object(Unwrap(metadata)) ELSE None
        pairs == IF IsSome(obj) THEN Unwrap(obj) ELSE <<>>
    IN  [k \in {"page", "chunk"} \cup {pairs[p][1] : p \in DOMAIN pairs} |->
            IF \E p \in DOMAIN pairs : pairs[p][1] = k
            THEN pairs[CHOOSE p \in DOMAIN pairs : pairs[p][1] = k][2]
            ELSE IF k = "page" THEN chunk.page_number ELSE chunk.chunk_index]

\* the insights process_chunk returns for a chunk whose completion gave count insights
ChunkInsights(chunk, count, embedding, metadata) ==
    [j \in 1..count |->
        [text |-> [from |-> chunk.text, n |-> j],
         embedding |-> embedding,
         metadata |-> InsightMetadata(chunk, metadata)]]

\* the point process_document builds for a chunk with an embedding
ChunkPoint(chunk, embedding) ==
    [vector |-> embedding, text |-> chunk.text,
     page |-> chunk.page_number, chunk |-> chunk.chunk_index]

\* task i once the insight at position j is dealt with
NextInsight(task, j) ==
    IF j < task.insights THEN [task EXCEPT !.pc = "insight_embed", !.j = j + 1]
    ELSE [task EXCEPT !.pc = "ok"]

TaskOver(task) == task.pc \in {"ok", "err"}

\* join_all(tasks) returns when every task is over
AfterTask(c, i, task) ==
    LET tasks == [c.tasks EXCEPT ![i] = task]
    IN  [c EXCEPT !.tasks = tasks,
                  !.pc = IF \A t \in DOMAIN tasks : TaskOver(tasks[t])
                         THEN "collect" ELSE "chunks"]

XInit ==
    /\ chunk_cache = <<>>
    /\ touched = <<>>
    /\ call = Idle

process_document(doc, metadata) ==
    /\ call.pc = "idle"
    /\ LET chunks == create_chunks(TextOf(doc), DefaultChunkSize)
           n == Len(chunks)
       IN  call' = [pc |-> IF n = 0 THEN "collect" ELSE "embedding",
                    chunks |-> chunks,
                    metadata |-> metadata,
                    hit_keys |-> {KeyOf(chunks[i]) : i \in 1..n} \cap CachedKeys,
                    batch_start |-> 0,
                    emb_res |-> [i \in 1..n |->
                                    IF i \in Batch(0, n) THEN "pending" ELSE "none"],
                    batch_embeddings |-> <<>>,
                    tasks |-> [i \in 1..n |->
                                  [pc |-> "new", embedding |-> None, insights |-> 0, j |-> 0]],
                    k |-> 1,
                    all_insights |-> <<>>,
                    points_to_store |-> <<>>,
                    upsert |-> "none"]
    /\ op' = [name |-> "process_document", args |-> <<doc, metadata>>]
    /\ ret' = [ok |-> FALSE, val |-> "pending"]
    /\ UNCHANGED <<chunk_cache, touched>>
    /\ UNCHANGED <<memVars, chunkVars, parseVars, taskVars>>

\* the embedding call for chunk i comes back
embedding_returns(i, ok) ==
    /\ call.pc = "embedding"
    /\ i \in DOMAIN call.emb_res
    /\ call.emb_res[i] = "pending"
    /\ LET res == [call.emb_res EXCEPT ![i] = IF ok THEN "ok" ELSE "err"]
           n == Len(call.chunks)
           batch == Batch(call.batch_start, n)
           next == call.batch_start + BatchSize
           extended == call.batch_embeddings
                         \o OkEmbeddings(call.chunks, res, call.batch_start + 1,
                                         Min(next, n))
       IN  call' =
             IF \E b \in batch : res[b] = "pending"
             THEN [call EXCEPT !.emb_res = res]
             ELSE IF next < n
                  THEN [call EXCEPT
                          !.emb_res = [c \in 1..n |->
                                          IF c \in Batch(next, n) THEN "pending" ELSE res[c]],
                          !.batch_start = next,
                          !.batch_embeddings = extended]
                  ELSE [call EXCEPT
                          !.emb_res = res,
                          !.batch_embeddings = extended,
                          !.pc = "chunks",
                          !.tasks = [t \in 1..n |->
                                        [pc |-> "complete",
                                         embedding |-> ChunkEmbedding(extended, t),
                                         insights |-> 0, j |-> 0]]]
    /\ op' = [name |-> "embedding_returns", args |-> <<i, ok>>]
    /\ UNCHANGED <<ret, chunk_cache, touched>>
    /\ UNCHANGED <<memVars, chunkVars, parseVars, taskVars>>

\* the completion call of process_chunk for chunk i comes back: an error
\* <<"err">>, or a response that parses into count insights, <<"ok", count>>
completion_returns(i, outcome) ==
    /\ call.pc = "chunks"
    /\ i \in DOMAIN call.tasks
    /\ call.tasks[i].pc = "complete"
    /\ call' = AfterTask(call, i,
                  IF outcome[1] = "err" THEN [call.tasks[i] EXCEPT !.pc = "err"]
                  ELSE NextInsight([call.tasks[i] EXCEPT !.insights = outcome[2]], 0))
    /\ op' = [name |-> "completion_returns", args |-> <<i, outcome>>]
    /\ UNCHANGED <<ret, chunk_cache, touched>>
    /\ UNCHANGED <<memVars, chunkVars, parseVars, taskVars>>

\* extract_insights for chunk i: the embedding call for its current insight comes back
insight_embedding_returns(i, ok) ==
    /\ call.pc = "chunks"
    /\ i \in DOMAIN call.tasks
    /\ call.tasks[i].pc = "insight_embed"
    /\ call' = AfterTask(call, i,
                  IF ok THEN [call.tasks[i] EXCEPT !.pc = "insight_store"]
                  ELSE NextInsight(call.tasks[i], call.tasks[i].j))
    /\ op' = [name |-> "insight_embedding_returns", args |-> <<i, ok>>]
    /\ UNCHANGED <<ret, chunk_cache, touched>>
    /\ UNCHANGED <<memVars, chunkVars, parseVars, taskVars>>

\* extract_insights for chunk i: store_insight_vector for its current insight comes back
insight_store_returns(i, ok) ==
    /\ call.pc = "chunks"
    /\ i \in DOMAIN call.tasks
    /\ call.tasks[i].pc = "insight_store"
    /\ call' = AfterTask(call, i, NextInsight(call.tasks[i], call.tasks[i].j))
    /\ op' = [name |-> "insight_store_returns", args |-> <<i, ok>>]
    /\ UNCHANGED <<ret, chunk_cache, touched>>
    /\ UNCHANGED <<memVars, chunkVars, parseVars, taskVars>>

\* process_document returns Ok(all_insights); the result of the upsert is
\* logged and not returned
ReturnsUpsertResult(final) ==
    /\ call' = Idle
    /\ ret' = [ok |-> final.upsert # "err",
               val |-> IF final.upsert # "err" THEN final.all_insights ELSE <<>>,
               call |-> final]

Returns(final) ==
    /\ call' = Idle
    /\ ret' = [ok |-> TRUE, val |-> final.all_insights, call |-> final]

\* one turn of the loop over chunk_results, or what follows the loop
collect ==
    /\ call.pc = "collect"
    /\ op' = [name |-> "collect", args |-> <<call.k>>]
    /\ IF call.k <= Len(call.chunks)
       THEN LET task == call.tasks[call.k]
                chunk == call.chunks[call.k]
                insights == ChunkInsights(chunk, task.insights, task.embedding,
                                         call.metadata)
            IN  IF task.pc = "ok"
                THEN /\ chunk_cache' = cache_chunk(chunk_cache, KeyOf(chunk),
                                          [chunk |-> chunk, embedding |-> task.embedding,
                                           insights |-> insights])
                     /\ touched' = Touch(touched, KeyOf(chunk))
                     /\ call' = [call EXCEPT
                                   !.k = @ + 1,
                                   !.all_insights = @ \o insights,
                                   !.points_to_store =
                                       IF IsSome(task.embedding)
                                       THEN Append(@, ChunkPoint(chunk, Unwrap(task.embedding)))
                                       ELSE @]
                     /\ UNCHANGED ret
                ELSE /\ call' = [call EXCEPT !.k = @ + 1]
                     /\ UNCHANGED <<ret, chunk_cache, touched>>
       ELSE /\ IF call.points_to_store # <<>>
               THEN call' = [call EXCEPT !.pc = "upsert"] /\ UNCHANGED ret
               ELSE Returns(call)
            /\ UNCHANGED <<chunk_cache, touched>>
    /\ UNCHANGED <<memVars, chunkVars, parseVars, taskVars>>

\* the batch upsert into "document_chunks" comes back
upsert_returns(ok) ==
    /\ call.pc = "upsert"
    /\ op' = [name |-> "upsert_returns", args |-> <<ok>>]
    /\ Returns([call EXCEPT !.upsert = IF ok THEN "ok" ELSE "err"])
    /\ UNCHANGED <<chunk_cache, touched>>
    /\ UNCHANGED <<memVars, chunkVars, parseVars, taskVars>>

\* the loop of search_document over the hits (their cache keys)
RECURSIVE LookupAll(_, _)
LookupAll(cache, keys) ==
    IF keys = <<>> THEN cache
    ELSE LookupAll(get_cached_chunk(cache, Head(keys)), Tail(keys))

RECURSIVE TouchAll(_, _, _)
TouchAll(t, cache, keys) ==
    IF keys = <<>> THEN t
    ELSE TouchAll(IF HasKey(cache, Head(keys)) THEN Touch(t, Head(keys)) ELSE t,
                  cache, Tail(keys))

\* search_document: ok tells whether the embedding call and the search
\* succeed; keys are the cache keys of the hits the index returns
search_document(keys, ok) ==
    /\ op' = [name |-> "search_document", args |-> <<keys, ok>>]
    /\ IF ok
       THEN /\ chunk_cache' = LookupAll(chunk_cache, keys)
            /\ touched' = TouchAll(touched, chunk_cache, keys)
            /\ ret' = Ok([h \in 1..Len(keys) |-> HasKey(chunk_cache, keys[h])])
       ELSE /\ ret' = Err("search failed")
            /\ UNCHANGED <<chunk_cache, touched>>
    /\ UNCHANGED call
    /\ UNCHANGED <<memVars, chunkVars, parseVars, taskVars>>

\* inputs of the pipeline
LookupKeys == {Key(0, 0), Key(1, 0)}
HitLists == {<<>>} \cup {<<k>> : k \in LookupKeys}
Bodies == {<<1>>, <<DefaultChunkSize + 1>>}
Docs == [lead : {0}, body : Bodies]
InsightCounts == {0, 1}
Completions == {<<"err">>} \cup {<<"ok", count>> : count \in InsightCounts}
ChunkNumbers == 1..2

\* one-chunk documents, page after page: the pages used so far are
\* 1..Len(touched), and the next document has its chunk on the first page no
\* document has had a chunk on yet
NextPage == Len(touched) + 1

\* page 1 is processed again and looked up while the cache holds its first
\* pages and once it is about to be full
HotPhase ==
    \/ Len(touched) <= EarlyPages
    \/ Len(touched) >= CacheCapacity - 1

PagedDocs ==
    [lead : (IF HotPhase THEN {0} ELSE {}) \cup ({NextPage - 1} \cap 0..MaxLead),
     body : {<<1>>}]

ExtractorNext ==
    \/ \E doc \in Docs : process_document(doc, None)
    \/ \E i \in ChunkNumbers, ok \in BOOLEAN : embedding_returns(i, ok)
    \/ \E i \in ChunkNumbers, outcome \in Completions :
          completion_returns(i, outcome)
    \/ \E i \in ChunkNumbers, ok \in BOOLEAN : insight_embedding_returns(i, ok)
    \/ \E i \in ChunkNumbers, ok \in BOOLEAN : insight_store_returns(i, ok)
    \/ collect
    \/ \E ok \in BOOLEAN : upsert_returns(ok)
    \/ \E keys \in HitLists, ok \in BOOLEAN : search_document(keys, ok)

\* the same pipeline fed with one-chunk documents, page after page, by a
\* backend and an index that answer every call; searches come between calls,
\* in the hot phases
CacheNext ==
    \/ \E doc \in PagedDocs : process_document(doc, None)
    \/ embedding_returns(1, TRUE)
    \/ completion_returns(1, <<"ok", 0>>)
    \/ collect
    \/ upsert_returns(TRUE)
    \/ \E keys \in HitLists :
          call.pc = "idle" /\ HotPhase /\ search_document(keys, TRUE)

(***************************************************************************)
(* InsightExtractor::parse_insights_response                               *)
(* A response is the sequence of its lexical pieces: a piece is one        *)
(* character (backtick, apostrophe, double quote, bracket, brace, comma,   *)
(* colon, space, newline), a backslash escape of a quote, or a word of     *)
(* letters or digits such as "json" or "0.9".  The text of an insight is   *)
(* the sequence of the pieces of the string.                               *)
(***************************************************************************)
BT == "BACKTICK"
SQ == "APOSTROPHE"
DQ == "QUOTE"
EscSQ == "BACKSLASH APOSTROPHE"
EscDQ == "BACKSLASH QUOTE"
NL == "\n"
SP == " "
Ws == {SP, NL}
Numbers == {"0.9", "0.5"}

At(s, i) == IF i \in 1..Len(s) THEN s[i] ELSE "eof"

\* the one element of a set of one element: {e : x \in {d}} computes d once
\* and e from its value, as a let binding of x does
The(S) == CHOOSE v \in S : TRUE

\* str::trim_start_matches / trim_end_matches for the pieces of set
RECURSIVE TrimStart(_, _)
TrimStart(str, set) ==
    The({IF s # <<>> /\ Head(s) \in set THEN TrimStart(Tail(s), set) ELSE s :
            s \in {str}})

RECURSIVE TrimEnd(_, _)
TrimEnd(str, set) ==
    The({IF s # <<>> /\ s[Len(s)] \in set
         THEN TrimEnd(SubSeq(s, 1, Len(s) - 1), set) ELSE s :
            s \in {str}})

trim(s) == TrimEnd(TrimStart(s, Ws), Ws)
trim_matches(s, c) == TrimEnd(TrimStart(s, {c}), {c})
trim_start_matches(s, word) == TrimStart(s, {word})

\* str::replace('\'', "\""): every single quote, escaped or not, becomes a double quote
keep_quotes(s) == s

replace(s) ==
    [i \in 1..Len(s) |->
        IF s[i] = SQ THEN DQ ELSE IF s[i] = EscSQ THEN EscDQ ELSE s[i]]

cleaned_response(response) ==
    trim(replace(trim_start_matches(
            trim_start_matches(trim_matches(trim(response), BT), "json"), "JSON")))

\* serde_json: position of the first piece at or after i that is not whitespace
SkipWs(s, i) ==
    CHOOSE j \in i..(Len(s) + 1) :
        /\ j = Len(s) + 1 \/ s[j] \notin Ws
        /\ \A k \in i..(j - 1) : s[k] \in Ws

Failed == [ok |-> FALSE, val |-> <<>>, next |-> 0]
Parsed(v, next) == [ok |-> TRUE, val |-> v, next |-> next]

\* serde_json: a string that starts at i; a raw newline and the escape of a
\* single quote are not allowed inside, the escape of a double quote stands
\* for the double quote
ParseString(s, i) ==
    IF At(s, i) # DQ \/ ~(\E j \in (i + 1)..Len(s) : s[j] = DQ) THEN Failed
    ELSE LET j == CHOOSE j \in (i + 1)..Len(s) :
                      s[j] = DQ /\ \A k \in (i + 1)..(j - 1) : s[k] # DQ
             raw == SubSeq(s, i + 1, j - 1)
         IN  IF \E k \in 1..Len(raw) : raw[k] \in {NL, EscSQ} THEN Failed
             ELSE Parsed([k \in 1..Len(raw) |-> IF raw[k] = EscDQ THEN DQ ELSE raw[k]],
                         j + 1)

\* serde_json: a value that starts at i; the responses considered hold
\* strings and numbers only
ParseValue(s, i) ==
    IF At(s, i) = DQ
    THEN LET str == ParseString(s, i)
         IN  IF str.ok THEN Parsed(JString(str.val), str.next) ELSE Failed
    ELSE IF At(s, i) \in Numbers THEN Parsed(JNumber(s[i]), i + 1)
    ELSE Failed

\* serde_json: the members of an object from the key at i on, after members
RECURSIVE ParseMembers(_, _, _)
ParseMembers(s, at, members) ==
    The({LET key == ParseString(s, i)
             colon == SkipWs(s, key.next)
             value == ParseValue(s, SkipWs(s, colon + 1))
             after == SkipWs(s, value.next)
             all == Append(members, [key |-> key.val, value |-> value.val])
         IN  IF ~key.ok \/ At(s, colon) # ":" THEN Failed
             ELSE IF ~value.ok THEN Failed
             ELSE IF At(s, after) = "}" THEN Parsed(all, after + 1)
             ELSE IF At(s, after) = "," THEN ParseMembers(s, SkipWs(s, after + 1), all)
             ELSE Failed :
            i \in {at}})

ParseObject(s, i) ==
    IF At(s, i) # "{" THEN Failed
    ELSE IF At(s, SkipWs(s, i + 1)) = "}" THEN Parsed(<<>>, SkipWs(s, i + 1) + 1)
    ELSE ParseMembers(s, SkipWs(s, i + 1), <<>>)

\* #[derive(Deserialize)] struct Insight, from the members of an object:
\* text and relevance are required, once each, with the right type
ValuesOf(members, key) ==
    SelectSeq(members, LAMBDA m : m.key = <<key>>)

ToInsight(members) ==
    LET text == ValuesOf(members, "text")
        relevance == ValuesOf(members, "relevance")
    IN  IF /\ Len(text) = 1 /\ text[1].value.kind = "String"
           /\ Len(relevance) = 1 /\ relevance[1].value.kind = "Number"
           /\ ValuesOf(members, "embedding") = <<>>
        THEN Ok([text |-> text[1].value.v, relevance |-> relevance[1].value.v,
                 embedding |-> None, metadata |-> None])
        ELSE Err("deserialize")

\* serde_json: the elements of an array from the element at i on, after insights
RECURSIVE ParseElements(_, _, _)
ParseElements(s, at, insights) ==
    The({LET insight == ToInsight(object.val)
             after == SkipWs(s, object.next)
             all == Append(insights, insight.val)
         IN  IF ~object.ok THEN Failed
             ELSE IF ~insight.ok THEN Failed
             ELSE IF At(s, after) = "]" THEN Parsed(all, after + 1)
             ELSE IF At(s, after) = "," THEN ParseElements(s, SkipWs(s, after + 1), all)
             ELSE Failed :
            object \in {ParseObject(s, at)}})

\* serde_json::from_str::<Vec<Insight>>
from_str(str) ==
    The({LET start == SkipWs(s, 1)
             first == SkipWs(s, start + 1)
             array == IF At(s, start) # "[" THEN Failed
                      ELSE IF At(s, first) = "]" THEN Parsed(<<>>, first + 1)
                      ELSE ParseElements(s, first, <<>>)
         IN  IF array.ok /\ SkipWs(s, array.next) = Len(s) + 1 THEN Ok(array.val)
             ELSE Err("parse") :
            s \in {str}})

\* format!("[{}]", cleaned_response) where the code asks for it
fixed_response(cleaned) ==
    IF cleaned # <<>> /\ Head(cleaned) = "{" /\ cleaned[Len(cleaned)] = "}"
    THEN <<"[">> \o cleaned \o <<"]">>
    ELSE IF ~(cleaned # <<>> /\ Head(cleaned) = "[")
         THEN <<"[">> \o cleaned \o <<"]">>
         ELSE cleaned

\* str::lines
RECURSIVE lines(_)
lines(s) ==
    IF s = <<>> THEN <<>>
    ELSE IF \E j \in 1..Len(s) : s[j] = NL
         THEN LET j == CHOOSE j \in 1..Len(s) : s[j] = NL /\ \A k \in 1..(j - 1) : s[k] # NL
              IN  <<SubSeq(s, 1, j - 1)>> \o lines(SubSeq(s, j + 1, Len(s)))
         ELSE <<s>>

\* the last arm: one insight of relevance 0.8 per line that is not blank
LineInsights(response) ==
    LET kept == SelectSeq(lines(response), LAMBDA line : trim(line) # <<>>)
    IN  [i \in 1..Len(kept) |->
            [text |-> trim(kept[i]), relevance |-> "0.8",
             embedding |-> None, metadata |-> None]]

LastArmFails(response) == Err("parse")

LastArm(response) == Ok(LineInsights(response))

parse_insights_response(response) ==
    The({LET direct == from_str(cleaned)
             fixed == from_str(fixed_response(cleaned))
         IN  IF direct.ok THEN Ok(direct.val)
             ELSE IF fixed.ok THEN Ok(fixed.val)
             ELSE LastArm(response) :
            cleaned \in {cleaned_response(response)}})

\* the responses given to the parser: arrays of {text, relevance} objects
\* written with one kind of quote, plain or inside a ```json fence, and short
\* responses of arbitrary pieces
InsightTexts == {<<"a">>, <<"say", DQ, "hi">>, <<"it", SQ, "s">>}
Objects == [text : InsightTexts, relevance : Numbers]
Arrays == UNION {[1..n -> Objects] : n \in 0..MaxObjects}
Pieces == {BT, SQ, DQ, "[", "]", "{", "}", ",", NL, "json", "a"}
RawResponses == UNION {[1..n -> Pieces] : n \in 0..MaxPieces}

\* a string literal delimited by the quote q, the same quote escaped inside
Quoted(text, q) ==
    <<q>> \o [i \in 1..Len(text) |->
                 IF text[i] # q THEN text[i] ELSE IF q = SQ THEN EscSQ ELSE EscDQ]
          \o <<q>>

RenderObject(object, q) ==
    <<"{">> \o Quoted(<<"text">>, q) \o <<":", SP>> \o Quoted(object.text, q)
            \o <<",", SP>> \o Quoted(<<"relevance">>, q)
            \o <<":", SP, object.relevance, "}">>

RECURSIVE RenderObjects(_, _)
RenderObjects(objects, q) ==
    IF objects = <<>> THEN <<>>
    ELSE IF Len(objects) = 1 THEN RenderObject(objects[1], q)
    ELSE RenderObject(Head(objects), q) \o <<",", SP>> \o RenderObjects(Tail(objects), q)

RenderArray(objects, q) == <<"[">> \o RenderObjects(objects, q) \o <<"]">>

Fenced(s) == <<BT, BT, BT, "json", NL>> \o s \o <<NL, BT, BT, BT>>

ParserInputs ==
    {[style |-> "plain", array |-> a, response |-> RenderArray(a, DQ)] : a \in Arrays}
    \cup {[style |-> "fenced", array |-> a, response |-> Fenced(RenderArray(a, SQ))] :
             a \in Arrays}
    \cup {[style |-> "raw", array |-> <<>>, response |-> r] : r \in RawResponses}

\* no call in progress, the lock free, the topic cache as lazy_static builds
\* it; the parser has parsed nothing
TasksIdle ==
    /\ chats = <<>>
    /\ memory_lock = None
    /\ state_memory = None
    /\ topic_cache = <<>>

ParseIdle ==
    /\ parse_in = [style |-> "raw", array |-> <<>>, response |-> <<>>]
    /\ parse_out = None
    /\ TasksIdle

ParseStart ==
    /\ parse_in \in ParserInputs
    /\ parse_out = None
    /\ TasksIdle

call_parse_insights_response ==
    /\ parse_out = None
    /\ parse_out' = Some(parse_insights_response(parse_in.response))
    /\ op' = [name |-> "parse_insights_response", args |-> <<>>]
    /\ UNCHANGED <<parse_in, ret>>
    /\ UNCHANGED <<memVars, chunkVars, xVars, taskVars>>

ParserNext == call_parse_insights_response

(***************************************************************************)
(* Recall: get_recent_memories, records of other writers, and              *)
(* ChatManager::build_conversation_context                                 *)
(***************************************************************************)
\* Vec::sort_by(|a, b| b.timestamp.cmp(&a.timestamp)) is a stable insertion
\* of each memory after those that do not sort after it
SortsBeforeOldestFirst(a, b) == a.timestamp < b.timestamp

SortsBefore(a, b) == a.timestamp > b.timestamp

RECURSIVE InsertSorted(_, _)
InsertSorted(sorted, m) ==
    IF sorted = <<>> THEN <<m>>
    ELSE IF SortsBefore(m, Head(sorted)) THEN <<m>> \o sorted
    ELSE <<Head(sorted)>> \o InsertSorted(Tail(sorted), m)

RECURSIVE sort_by_timestamp(_)
sort_by_timestamp(memories) ==
    IF memories = <<>> THEN <<>>
    ELSE InsertSorted(sort_by_timestamp(SubSeq(memories, 1, Len(memories) - 1)),
                      memories[Len(memories)])

get_recent_memories(limit, netOk) ==
    /\ op' = [name |-> "get_recent_memories", args |-> <<limit>>]
    /\ IF SearchAccepted(ZeroVector(D), netOk)
       THEN \E r \in Rankings(ZeroVector(D)) :
                ret' = [ok |-> TRUE,
                        val |-> sort_by_timestamp(
                                   FilterMapDecode(search_vectors(r, limit))),
                        hits |-> search_vectors(r, limit)]
       ELSE ret' = Err("Failed to search memories")
    /\ UNCHANGED memVars
    /\ UNCHANGED <<chunkVars, xVars, parseVars, taskVars>>

\* payloads other writers put into the collection: a semantic-search style
\* payload without timestamp and role, one whose timestamp is not a date,
\* and one whose role is not a string
ForeignKinds == {"no timestamp", "bad timestamp", "bad role"}
ForeignPayload(kind) ==
    CASE kind = "no timestamp" -> [k \in {"text", "source"} |-> JString("ping")]
      [] kind = "bad timestamp" ->
            [k \in {"text", "timestamp", "role"} |->
                IF k = "timestamp" THEN JString(<<"yesterday">>) ELSE JString("ping")]
      [] OTHER ->
            [k \in {"text", "timestamp", "role"} |->
                CASE k = "timestamp" -> JString(to_rfc3339(0))
                  [] k = "role" -> JNumber(1)
                  [] OTHER -> JString("ping")]

\* Database::store_vector("conversation_memory", vector, payload)
store_vector(vector, kind, netOk) ==
    /\ nextUuid < MaxUuid
    /\ op' = [name |-> "store_vector", args |-> <<vector, kind>>]
    /\ IF UpsertAccepted(vector, netOk)
       THEN /\ nextUuid' = nextUuid + 1
            /\ points' = Append(points,
                    [id |-> Uuid(nextUuid + 1), vector |-> vector,
                     rec |-> [foreign |-> TRUE],
                     payload |-> [k \in DOMAIN ForeignPayload(kind) |->
                                     QdrantValue(ForeignPayload(kind)[k])]])
            /\ ret' = Ok(Uuid(nextUuid + 1))
       ELSE /\ UNCHANGED <<nextUuid, points>>
            /\ ret' = Err("Vector database operation failed")
    /\ UNCHANGED <<now, current_session, collDim>>
    /\ UNCHANGED <<chunkVars, xVars, parseVars, taskVars>>

\* str::len of the texts and roles the chat stores, in bytes
Injected == "hi\nRelevant Past Messages:\nyo"
Bytes(s) ==
    CASE s = "long" -> MaxContextLength
      [] s = Injected -> 29
      [] s = "hi" -> 2
      [] OTHER -> 4

\* str::contains("\nRelevant Past Messages:\n") and the part of the text
\* before that separator
HasSeparator(text) == text = Injected
BeforeSeparator(text) == "hi"

\* the context is the sequence of its lines; a line of a memory is
\* format!("{}: {}\n", role, text), with "[Previous] " in front in the
\* second section
HeaderRecent == [kind |-> "header", is |-> "Recent Conversation:"]
HeaderRelevant == [kind |-> "header", is |-> "Relevant Past Messages:"]
HeaderTruncated ==
    [kind |-> "header", is |-> "Relevant Past Messages: [Truncated for length]"]
Blank == [kind |-> "blank"]
RecentLine(m) == [kind |-> "recent", role |-> m.role, text |-> m.text]
PreviousLine(m) == [kind |-> "previous", role |-> m.role, text |-> m.text]

\* bytes of a line, its newline included
LineBytes(line) ==
    CASE line.kind = "recent" -> ((Bytes(line.role) + 2) + Bytes(line.text)) + 1
      [] line.kind = "previous" -> (((11 + Bytes(line.role)) + 2) + Bytes(line.text)) + 1
      [] line.kind = "cut" -> (Bytes(line.role) + 2) + Bytes(line.text)
      [] line.kind = "blank" -> 1
      [] line = HeaderRecent -> 21
      [] line = HeaderTruncated -> 46
      [] OTHER -> 24

RECURSIVE ContextBytes(_)
ContextBytes(context) ==
    IF context = <<>> THEN 0
    ELSE LineBytes(Head(context)) + ContextBytes(Tail(context))

\* recent_memories.iter().rev()
Rev(s) == [i \in 1..Len(s) |-> s[(Len(s) + 1) - i]]

SameOrder(s) == s

RecentOrder(recent_memories) == Rev(recent_memories)

RecentSection(recent_memories) ==
    <<HeaderRecent>>
    \o [i \in 1..Len(recent_memories) |-> RecentLine(RecentOrder(recent_memories)[i])]

\* !recent_memories.iter().any(|m| m.text == mem.text)
IsNewTextAlways(mem, recent_memories) == TRUE

IsNewText(mem, recent_memories) ==
    ~(\E k \in 1..Len(recent_memories) : recent_memories[k].text = mem.text)

\* the similar memories whose text is not the text of a recent memory
RelevantSection(similar_memories, recent_memories) ==
    The({<<Blank, HeaderRelevant>> \o [i \in 1..Len(kept) |-> PreviousLine(kept[i])] :
            kept \in {SelectSeq(similar_memories,
                                LAMBDA mem : IsNewText(mem, recent_memories))}})

\* context.split("\nRelevant Past Messages:\n").next(): what comes before the
\* first separator, which is the blank line and header pushed after the
\* recent lines or lies inside the text of a line; a line cut by the split
\* keeps its text up to the separator and loses its newline
Splits(line) ==
    \/ line.kind = "blank"
    \/ line.kind \in {"recent", "previous"} /\ HasSeparator(line.text)

recent_part(context) ==
    The({SubSeq(context, 1, k - 1)
         \o (IF context[k].kind = "blank" THEN <<>>
             ELSE <<[kind |-> "cut", role |-> context[k].role,
                     text |-> BeforeSeparator(context[k].text)]>>) :
            k \in {CHOOSE k \in 1..Len(context) :
                      /\ Splits(context[k])
                      /\ \A j \in 1..(k - 1) : ~Splits(context[j])}})

\* what build_conversation_context has rendered before it looks at the length
Rendered(similar_memories, recent_memories) ==
    RecentSection(recent_memories) \o RelevantSection(similar_memories, recent_memories)

\* the String build_conversation_context returns for the two lists
Context(similar_memories, recent_memories) ==
    The({IF ContextBytes(full) > MaxContextLength
         THEN recent_part(full) \o <<Blank, HeaderTruncated>>
         ELSE full :
            full \in {Rendered(similar_memories, recent_memories)}})

\* build_conversation_context under the memory lock: the two searches, then
\* the rendering; either search failing fails the call
build_conversation_context(user_embedding, netOk) ==
    /\ op' = [name |-> "build_conversation_context", args |-> <<user_embedding>>]
    /\ IF SearchAccepted(user_embedding, netOk) /\ SearchAccepted(ZeroVector(D), netOk)
       THEN \E r \in Rankings(user_embedding), z \in Rankings(ZeroVector(D)) :
               LET similar == FilterMapDecode(search_vectors(r, SimilarLimit))
                   recent == sort_by_timestamp(
                                FilterMapDecode(search_vectors(z, RecentLimit)))
               IN  ret' = [ok |-> TRUE, val |-> Context(similar, recent),
                           full |-> Rendered(similar, recent),
                           recent |-> recent, similar |-> similar]
       ELSE ret' = Err("Failed to search memories")
    /\ UNCHANGED memVars
    /\ UNCHANGED <<chunkVars, xVars, parseVars, taskVars>>

\* inputs of the recall operations
ChatTexts == {"ping", "long", Injected}
ChatHeads == {<<1, 0>>, <<0, 1>>}
ChatVectors == [len : {D}, v : ChatHeads]
RecentLimits == {1, RecentLimit}
SimilarLimits == {1, SimilarLimit}
ForeignVectors == [len : {D}, v : {<<1, 0>>}]
LongPause == 2 * (SessionWindowMinutes * 60)

RecallNext ==
    \/ Tick(LongPause)
    \/ \E role \in Roles, e \in ChatVectors, netOk \in BOOLEAN :
          store_memory("ping", role, e, netOk)
    \/ \E v \in ForeignVectors, kind \in ForeignKinds, netOk \in BOOLEAN :
          store_vector(v, kind, netOk)
    \/ \E q \in ChatVectors, limit \in SimilarLimits, netOk \in BOOLEAN :
          search_similar(q, limit, netOk)
    \/ \E limit \in RecentLimits, netOk \in BOOLEAN : get_recent_memories(limit, netOk)

ChatNext ==
    \/ Tick(LongPause)
    \/ \E text \in ChatTexts, role \in Roles, e \in ForeignVectors, netOk \in BOOLEAN :
          store_memory(text, role, e, netOk)
    \/ \E q \in ChatVectors, netOk \in BOOLEAN : build_conversation_context(q, netOk)

\* a manager that has stored more turns than build_conversation_context
\* asks get_recent_memories for: turn i was stored at second i with no
\* session started, each with an embedding of its own direction; the first
\* turns said one of two texts, the later ones "ping"
HistoryLen == RecentLimit + 1
HistoryHeads == <<<<1, 0>>, <<3, 1>>, <<2, 1>>, <<1, 1>>, <<1, 2>>, <<0, 1>>>>
HistoryTexts == {"ping", "pong"}
Histories ==
    {[i \in 1..HistoryLen |-> IF i <= 3 THEN first[i] ELSE "ping"] :
        first \in [1..3 -> HistoryTexts]}

HistoryPayload(text, t) ==
    [k \in {"text", "timestamp", "role", "session_id", "importance", "topic_tags"} |->
        CASE k = "text" -> JString(text)
          [] k = "timestamp" -> JString(to_rfc3339(t))
          [] k = "role" -> JString("user")
          [] k = "session_id" -> JString(DefaultSessionId)
          [] k = "importance" -> JNumber(1)
          [] OTHER -> JArray(<<>>)]

HistoryPoint(i, text) ==
    [id |-> Uuid(i), vector |-> [len |-> D, v |-> HistoryHeads[i]],
     rec |-> [text |-> text, role |-> "user", timestamp |-> i,
              session_id |-> DefaultSessionId],
     payload |-> [k \in DOMAIN HistoryPayload(text, i) |->
                     QdrantValue(HistoryPayload(text, i)[k])]]

HistoryStart ==
    /\ now = HistoryLen
    /\ current_session = None
    /\ nextUuid = HistoryLen
    /\ collDim = D
    /\ \E texts \in Histories :
          points = [i \in 1..HistoryLen |-> HistoryPoint(i, texts[i])]
    /\ op = [name |-> "store_memory", args |-> <<>>]
    /\ ret = Ok(Uuid(HistoryLen))

HistoryNext ==
    \E q \in ChatVectors, netOk \in BOOLEAN : build_conversation_context(q, netOk)

\* a MemoryManager and an InsightExtractor of one process: sessions and
\* stores on one side, one-chunk documents on the other
FrameVectors == [len : Dims, v : {<<1, 0>>}]
FrameDocs == [lead : {0}, body : {<<1>>}]
FrameNext ==
    \/ \E topic \in Topics : start_new_session(topic)
    \/ \E role \in Roles, e \in FrameVectors, netOk \in BOOLEAN :
          store_memory("ping", role, e, netOk)
    \/ \E doc \in FrameDocs : process_document(doc, None)
    \/ \E ok \in BOOLEAN : embedding_returns(1, ok)
    \/ completion_returns(1, <<"ok", 1>>)
    \/ \E ok \in BOOLEAN : insight_embedding_returns(1, ok)
    \/ insight_store_returns(1, TRUE)
    \/ collect
    \/ \E ok \in BOOLEAN : upsert_returns(ok)

(***************************************************************************)
(* process_document over a document of more chunks than one batch, with    *)
(* caller metadata, by an extractor that has cached nothing yet.  The      *)
(* backends answer the requests of one kind in the order of the chunks,    *)
(* and fail only for the first MaxFlaky chunks.                            *)
(***************************************************************************)
FanOutDoc == [lead |-> 0, body |-> [i \in 1..FanOutPages |-> 1]]
Metas ==
    {None, Some(JNull), Some(JObject(<<<<"page", 7>>>>))}

\* chunk i is the first one whose batch embedding is awaited
FirstPending(i) ==
    /\ call.pc = "embedding"
    /\ i \in DOMAIN call.emb_res
    /\ call.emb_res[i] = "pending"
    /\ \A j \in 1..(i - 1) : call.emb_res[j] # "pending"

\* chunk i is the first one whose process_chunk future is at pc
FirstAt(i, pc) ==
    /\ call.pc = "chunks"
    /\ i \in DOMAIN call.tasks
    /\ call.tasks[i].pc = pc
    /\ \A j \in 1..(i - 1) : call.tasks[j].pc # pc

Outcomes(i) == IF i <= MaxFlaky THEN BOOLEAN ELSE {TRUE}

FanOutNext ==
    \/ \E m \in Metas : chunk_cache = <<>> /\ process_document(FanOutDoc, m)
    \/ \E i \in 1..FanOutPages : \E ok \in Outcomes(i) :
          FirstPending(i) /\ embedding_returns(i, ok)
    \/ \E i \in 1..FanOutPages : \E ok \in Outcomes(i) :
          FirstAt(i, "complete")
          /\ completion_returns(i, IF ok THEN <<"ok", 1>> ELSE <<"err">>)
    \/ \E i \in 1..FanOutPages : \E ok \in Outcomes(i) :
          FirstAt(i, "insight_embed") /\ insight_embedding_returns(i, ok)
    \/ \E i \in 1..FanOutPages : \E ok \in Outcomes(i) :
          FirstAt(i, "insight_store") /\ insight_store_returns(i, ok)
    \/ collect
    \/ \E ok \in BOOLEAN : upsert_returns(ok)

(***************************************************************************)
(* ChatManager::chat, start_conversation and the HTTP chat handler as      *)
(* concurrent tasks.  A task is suspended whenever its pc names the lock   *)
(* or the network call it awaits; the steps between two awaits are one     *)
(* action.                                                                 *)
(***************************************************************************)
DefaultTopic == "General Conversation"
UserMessage == "ping"
Response == "pong"
ChatEmbedding == [len |-> D, v |-> <<1, 0>>]

\* the pcs at which a task awaits a completion, embedding or index request
AwaitsNetwork ==
    {"user_embedding", "store_user", "search_similar", "get_recent", "complete",
     "response_embedding", "store_assistant", "http_embedding", "http_store"}

\* the pcs at which a task awaits the lock around the MemoryManager
AwaitsLock == {"get_session", "lock_user", "lock_context", "lock_assistant"}

TaskAt(t, pc) == [chats EXCEPT ![t].pc = pc]

\* chat() is called: it first awaits the embedding of the user message
chat ==
    /\ Len(chats) < MaxChats
    /\ chats' = Append(chats, [kind |-> "chat", pc |-> "user_embedding",
                               session_id |-> None, similar |-> <<>>,
                               context |-> None])
    /\ UNCHANGED <<memory_lock, state_memory, topic_cache>>
    /\ UNCHANGED <<memVars, op, ret, chunkVars, xVars, parseVars>>

\* generate_embedding(...).await? of the user message or of the response
chat_embedding_returns(t, ok) ==
    /\ t \in DOMAIN chats
    /\ chats[t].pc \in {"user_embedding", "response_embedding"}
    /\ chats' = TaskAt(t, IF ~ok THEN "failed"
                          ELSE IF chats[t].pc = "user_embedding" THEN "get_session"
                          ELSE "lock_assistant")
    /\ UNCHANGED <<memory_lock, state_memory, topic_cache>>
    /\ UNCHANGED <<memVars, op, ret, chunkVars, xVars, parseVars>>

\* the block { lock; get_or_create_session(None) }: nothing in it suspends
\* once the lock is granted, and the guard is dropped at its end
chat_get_session(t) ==
    /\ t \in DOMAIN chats
    /\ chats[t].pc = "get_session"
    /\ memory_lock = None
    /\ IF IsSome(current_session) /\ InWindow(Unwrap(current_session), now)
       THEN /\ current_session' =
                 Some([Unwrap(current_session) EXCEPT !.last_active = now])
            /\ chats' = [chats EXCEPT ![t].pc = "lock_user",
                                      ![t].session_id = Some(Unwrap(current_session).id)]
            /\ UNCHANGED nextUuid
       ELSE /\ nextUuid < MaxChatUuid
            /\ current_session' = Some(NewSession(DefaultTopic))
            /\ nextUuid' = nextUuid + 1
            /\ chats' = [chats EXCEPT ![t].pc = "lock_user",
                                      ![t].session_id = Some(NewSession(DefaultTopic).id)]
    /\ UNCHANGED <<now, collDim, points, op, ret>>
    /\ UNCHANGED <<memory_lock, state_memory, topic_cache>>
    /\ UNCHANGED <<chunkVars, xVars, parseVars>>

\* self.memory.lock().await is granted; the next statement sends a request
\* to the vector index and awaits it with the guard alive
chat_lock(t) ==
    /\ t \in DOMAIN chats
    /\ chats[t].pc \in {"lock_user", "lock_context", "lock_assistant"}
    /\ memory_lock = None
    /\ memory_lock' = Some(t)
    /\ chats' = TaskAt(t, CASE chats[t].pc = "lock_user" -> "store_user"
                            [] chats[t].pc = "lock_context" -> "search_similar"
                            [] OTHER -> "store_assistant")
    /\ UNCHANGED <<state_memory, topic_cache>>
    /\ UNCHANGED <<memVars, op, ret, chunkVars, xVars, parseVars>>

\* the point store_memory upserts for a chat task
ChatPoint(text, role) ==
    [id |-> Uuid(nextUuid + 1), vector |-> ChatEmbedding,
     rec |-> [text |-> text, role |-> role, timestamp |-> now,
              session_id |-> StoreSessionId],
     payload |-> [k \in DOMAIN MemoryPayload(text, role) |->
                     QdrantValue(MemoryPayload(text, role)[k])]]

\* store_memory(...).await? of the user turn or of the assistant turn
\* returns and the block ends, which drops the guard
chat_store_returns(t, netOk) ==
    /\ t \in DOMAIN chats
    /\ chats[t].pc \in {"store_user", "store_assistant"}
    /\ memory_lock = Some(t)
    /\ nextUuid < MaxChatUuid
    /\ memory_lock' = None
    /\ IF UpsertAccepted(ChatEmbedding, netOk)
       THEN /\ nextUuid' = nextUuid + 1
            /\ points' = Append(points,
                            IF chats[t].pc = "store_user"
                            THEN ChatPoint(UserMessage, "user")
                            ELSE ChatPoint(Response, "assistant"))
            /\ chats' = TaskAt(t, IF chats[t].pc = "store_user"
                                  THEN "lock_context" ELSE "done")
       ELSE /\ UNCHANGED <<nextUuid, points>>
            /\ chats' = TaskAt(t, "failed")
    /\ UNCHANGED <<now, current_session, collDim, op, ret>>
    /\ UNCHANGED <<state_memory, topic_cache>>
    /\ UNCHANGED <<chunkVars, xVars, parseVars>>

\* build_conversation_context: search_similar(user_embedding, 10).await?
chat_search_returns(t, netOk) ==
    /\ t \in DOMAIN chats
    /\ chats[t].pc = "search_similar"
    /\ memory_lock = Some(t)
    /\ IF SearchAccepted(ChatEmbedding, netOk)
       THEN /\ \E r \in Rankings(ChatEmbedding) :
                  chats' = [chats EXCEPT
                               ![t].pc = "get_recent",
                               ![t].similar =
                                   FilterMapDecode(search_vectors(r, SimilarLimit))]
            /\ UNCHANGED memory_lock
       ELSE /\ chats' = TaskAt(t, "failed")
            /\ memory_lock' = None
    /\ UNCHANGED <<state_memory, topic_cache>>
    /\ UNCHANGED <<memVars, op, ret, chunkVars, xVars, parseVars>>

\* build_conversation_context: get_recent_memories(5).await?, the rendering
\* and the return, which drops the guard
chat_recent_returns(t, netOk) ==
    /\ t \in DOMAIN chats
    /\ chats[t].pc = "get_recent"
    /\ memory_lock = Some(t)
    /\ memory_lock' = None
    /\ IF SearchAccepted(ZeroVector(D), netOk)
       THEN \E z \in Rankings(ZeroVector(D)) :
               chats' = [chats EXCEPT
                            ![t].pc = "complete",
                            ![t].context =
                                Some(Context(chats[t].similar,
                                             sort_by_timestamp(FilterMapDecode(
                                                search_vectors(z, RecentLimit)))))]
       ELSE chats' = TaskAt(t, "failed")
    /\ UNCHANGED <<state_memory, topic_cache>>
    /\ UNCHANGED <<memVars, op, ret, chunkVars, xVars, parseVars>>

\* provider.complete(&prompt).await?
chat_complete_returns(t, ok) ==
    /\ t \in DOMAIN chats
    /\ chats[t].pc = "complete"
    /\ chats' = TaskAt(t, IF ok THEN "response_embedding" ELSE "failed")
    /\ UNCHANGED <<memory_lock, state_memory, topic_cache>>
    /\ UNCHANGED <<memVars, op, ret, chunkVars, xVars, parseVars>>

\* start_conversation: the lock is granted and start_new_session runs to
\* its end
start_conversation(topic) ==
    /\ memory_lock = None
    /\ nextUuid < MaxChatUuid
    /\ current_session' = Some(NewSession(topic))
    /\ nextUuid' = nextUuid + 1
    /\ UNCHANGED <<now, collDim, points, op, ret>>
    /\ UNCHANGED taskVars
    /\ UNCHANGED <<chunkVars, xVars, parseVars>>

\* chat_handler from the line that takes the write lock: the embedding of
\* the exchange is requested with the guard alive
chat_handler ==
    /\ Len(chats) < MaxChats
    /\ state_memory = None
    /\ state_memory' = Some(Len(chats) + 1)
    /\ chats' = Append(chats, [kind |-> "http", pc |-> "http_embedding",
                               session_id |-> None, similar |-> <<>>,
                               context |-> None])
    /\ UNCHANGED <<memory_lock, topic_cache>>
    /\ UNCHANGED <<memVars, op, ret, chunkVars, xVars, parseVars>>

\* the embedding or, when the generator fails, the zero vector; then
\* store_memory is awaited, still under the write lock
handler_embedding_returns(t, ok) ==
    /\ t \in DOMAIN chats
    /\ chats[t].pc = "http_embedding"
    /\ chats' = TaskAt(t, "http_store")
    /\ UNCHANGED <<memory_lock, state_memory, topic_cache>>
    /\ UNCHANGED <<memVars, op, ret, chunkVars, xVars, parseVars>>

\* the handler's MemoryManager never starts a session: its store goes under
\* the default session id; a failure is only printed.  The guard lives to
\* the end of the handler.
handler_store_returns(t, netOk) ==
    /\ t \in DOMAIN chats
    /\ chats[t].pc = "http_store"
    /\ state_memory = Some(t)
    /\ nextUuid < MaxChatUuid
    /\ state_memory' = None
    /\ chats' = TaskAt(t, "done")
    /\ IF UpsertAccepted(ChatEmbedding, netOk)
       THEN /\ nextUuid' = nextUuid + 1
            /\ points' = Append(points,
                  [id |-> Uuid(nextUuid + 1), vector |-> ChatEmbedding,
                   rec |-> [text |-> UserMessage, role |-> "chat", timestamp |-> now,
                            session_id |-> DefaultSessionId],
                   payload |-> [k \in DOMAIN HistoryPayload(UserMessage, now) |->
                                   QdrantValue(HistoryPayload(UserMessage, now)[k])]])
       ELSE UNCHANGED <<nextUuid, points>>
    /\ UNCHANGED <<now, current_session, collDim, op, ret>>
    /\ UNCHANGED <<memory_lock, topic_cache>>
    /\ UNCHANGED <<chunkVars, xVars, parseVars>>

ChatTasksNext ==
    \/ chat
    \/ chat_handler
    \/ \E topic \in Topics : start_conversation(topic)
    \/ \E t \in 1..MaxChats :
          \/ \E ok \in BOOLEAN : chat_embedding_returns(t, ok)
          \/ chat_get_session(t)
          \/ chat_lock(t)
          \/ \E netOk \in BOOLEAN : chat_store_returns(t, netOk)
          \/ \E netOk \in BOOLEAN : chat_search_returns(t, netOk)
          \/ \E netOk \in BOOLEAN : chat_recent_returns(t, netOk)
          \/ \E ok \in BOOLEAN : chat_complete_returns(t, ok)
          \/ \E ok \in BOOLEAN : handler_embedding_returns(t, ok)
          \/ \E netOk \in BOOLEAN : handler_store_returns(t, netOk)


(***************************************************************************)
(* TweetComposer::generate_auto_post_topic, called from several tasks of   *)
(* the multi-threaded runtime.  A topic is the sequence of its characters; *)
(* TOPIC_CACHE is locked for the length of one statement at a time.        *)
(***************************************************************************)
to_lowercase(topic) == [i \in DOMAIN topic |-> IF topic[i] = "A" THEN "a" ELSE topic[i]]

\* str::contains
contains(hay, needle) ==
    \E start \in 0..(Len(hay) - Len(needle)) :
        SubSeq(hay, start + 1, start + Len(needle)) = needle

\* the completion is trimmed and a leading "Topic:" and the quotes around
\* the topic are removed
CleanTopic(raw) == raw.body

\* the decimal digits of n
RECURSIVE Digits(_)
Digits(n) ==
    IF n < 10 THEN <<<<"0", "1", "2", "3", "4", "5", "6", "7", "8", "9">>[n + 1]>>
    ELSE Digits(n \div 10) \o Digits(n % 10)

\* format!("{} ({})", topic, Utc::now().timestamp())
Timestamped(topic) == topic \o <<" ", "(">> \o Digits(now) \o <<")">>

\* clean_old_topics under the lock
clean_old_topics(cache) ==
    LET kept == SelectSeq(cache, LAMBDA e : e.timestamp > now - (TopicDays * 86400))
    IN  IF Len(kept) > MaxTopicCacheSize
        THEN SubSeq(sort_by_timestamp(kept), 1, MaxTopicCacheSize)
        ELSE kept

\* is_topic_unique under the lock
is_topic_unique(cache, topic) ==
    ~\E e \in DOMAIN cache :
        \/ contains(to_lowercase(cache[e].topic), to_lowercase(topic))
        \/ contains(to_lowercase(topic), to_lowercase(cache[e].topic))

\* the call starts: clean_old_topics, then the first completion is awaited
generate_auto_post_topic ==
    /\ Len(chats) < MaxTopicCalls
    /\ topic_cache' = clean_old_topics(topic_cache)
    /\ chats' = Append(chats, [kind |-> "topic", pc |-> "complete", attempt |-> 0,
                               topic |-> <<>>])
    /\ UNCHANGED <<memory_lock, state_memory>>
    /\ UNCHANGED <<memVars, op, ret, chunkVars, xVars, parseVars>>

\* provider.complete(&prompt).await comes back; an error ends the call
topic_complete_returns(t, outcome) ==
    /\ t \in DOMAIN chats
    /\ chats[t].pc = "complete"
    /\ chats' = IF outcome.ok
                THEN [chats EXCEPT ![t].pc = "check",
                                   ![t].topic = CleanTopic(outcome.val)]
                ELSE [chats EXCEPT ![t].pc = "failed"]
    /\ UNCHANGED <<memory_lock, state_memory, topic_cache>>
    /\ UNCHANGED <<memVars, op, ret, chunkVars, xVars, parseVars>>

\* if Self::is_topic_unique(&topic): the guard taken inside is dropped when
\* the function returns; then the test of the attempt number
topic_check(t) ==
    /\ t \in DOMAIN chats
    /\ chats[t].pc = "check"
    /\ chats' = [chats EXCEPT
                    ![t].pc = IF is_topic_unique(topic_cache, chats[t].topic) THEN "push"
                              ELSE IF chats[t].attempt = TopicAttempts - 1
                              THEN "push_timestamped"
                              ELSE "complete",
                    ![t].attempt = IF is_topic_unique(topic_cache, chats[t].topic)
                                      \/ chats[t].attempt = TopicAttempts - 1
                                   THEN @ ELSE @ + 1]
    /\ UNCHANGED <<memory_lock, state_memory, topic_cache>>
    /\ UNCHANGED <<memVars, op, ret, chunkVars, xVars, parseVars>>

\* TOPIC_CACHE.lock() again, the push and the return; unique tells on which
\* of the two paths the entry was added
topic_push(t) ==
    /\ t \in DOMAIN chats
    /\ chats[t].pc \in {"push", "push_timestamped"}
    /\ topic_cache' =
          Append(topic_cache,
                 IF chats[t].pc = "push"
                 THEN [topic |-> chats[t].topic, timestamp |-> now, unique |-> TRUE]
                 ELSE [topic |-> Timestamped(chats[t].topic), timestamp |-> now,
                       unique |-> FALSE])
    /\ chats' = TaskAt(t, "done")
    /\ UNCHANGED <<memory_lock, state_memory>>
    /\ UNCHANGED <<memVars, op, ret, chunkVars, xVars, parseVars>>

\* what the provider answers
TopicBodies == {<<"A">>, <<"a", "b">>}
TopicOutcomes ==
    {Err("Failed to generate topic")}
    \cup {Ok([label |-> label, body |-> body]) : label \in BOOLEAN, body \in TopicBodies}

ComposerNext ==
    \/ generate_auto_post_topic
    \/ \E t \in 1..MaxTopicCalls :
          \/ \E outcome \in TopicOutcomes : topic_complete_returns(t, outcome)
          \/ topic_check(t)
          \/ topic_push(t)

SessionNext ==
    \/ \E d \in TickDeltas : Tick(d)
    \/ \E topic \in Topics : start_new_session(topic)
    \/ \E topic \in Topics : get_or_create_session(topic)

MemNext ==
    \/ \E topic \in Topics : start_new_session(topic)
    \/ \E topic \in Topics : get_or_create_session(topic)
    \/ \E text \in Texts, role \in Roles, e \in Vectors, netOk \in BOOLEAN :
          store_memory(text, role, e, netOk)
    \/ \E q \in Vectors, limit \in Limits, netOk \in BOOLEAN :
          search_similar(q, limit, netOk)
    \/ \E s \in SessionIds, netOk \in BOOLEAN : search_by_session(s, netOk)

vars == <<now, current_session, nextUuid, collDim, points, op, ret, chunk_in, chunk_out,
          chunk_cache, touched, call, parse_in, parse_out, chats, memory_lock,
          state_memory, topic_cache>>

MemInit == MemStart(Dims) /\ ChunkIdle /\ XInit /\ ParseIdle

SpecSession == MemInit /\ [][SessionNext]_vars

SpecMemory == MemInit /\ [][MemNext]_vars

ChunkInit == MemStart({D}) /\ ChunkStart /\ XInit /\ ParseIdle

SpecChunker == ChunkInit /\ [][ChunkNext]_vars

ExtractorInit == MemStart({D}) /\ ChunkIdle /\ XInit /\ ParseIdle

SpecExtractor == ExtractorInit /\ [][ExtractorNext]_vars

SpecCache == ExtractorInit /\ [][CacheNext]_vars

RecallInit == MemStart({D}) /\ ChunkIdle /\ XInit /\ ParseIdle

SpecRecall == RecallInit /\ [][RecallNext]_vars

SpecChat == RecallInit /\ [][ChatNext]_vars
SpecChatTasks == RecallInit /\ [][ChatTasksNext]_vars

SpecFrame == MemInit /\ [][FrameNext]_vars

SpecFanOut == ExtractorInit /\ [][FanOutNext]_vars

SpecComposer == RecallInit /\ [][ComposerNext]_vars

HistoryInit == HistoryStart /\ ChunkIdle /\ XInit /\ ParseIdle

SpecHistory == HistoryInit /\ [][HistoryNext]_vars

ParserInit == MemStart({D}) /\ ChunkIdle /\ XInit /\ ParseStart

SpecParser == ParserInit /\ [][ParserNext]_vars

(***************************************************************************)
(* Properties of the session window                                        *)
(***************************************************************************)
\* C1: for an Active session, get_or_create_session returns the current id
\* and sets last_active to now when less than 30 minutes (1800 s) have passed
\* since last_active, and returns a different id, the id of the session it
\* installs, once 30 minutes or more have passed.
C1_SessionWindow ==
    [][(op'.name = "get_or_create_session" /\ IsSome(current_session)) =>
          LET s == Unwrap(current_session)
          IN  /\ ret'.ok
              /\ IsSome(current_session')
              /\ Unwrap(current_session').id = ret'.val
              /\ IF now - s.last_active < SessionWindowMinutes * 60
                 THEN /\ ret'.val = s.id
                      /\ Unwrap(current_session') = [s EXCEPT !.last_active = now]
                 ELSE ret'.val # s.id]_vars

\* a session other than the first one, continued by get_or_create_session
\* some time after it started
C1_Witness ==
    /\ op.name = "get_or_create_session"
    /\ IsSome(current_session)
    /\ Unwrap(current_session).id = ret.val
    /\ Unwrap(current_session).id # Uuid(1)
    /\ Unwrap(current_session).start_time < now
    /\ Unwrap(current_session).last_active = now

(***************************************************************************)
(* Properties of store and search                                          *)
(***************************************************************************)
\* the text, role and timestamp of a returned Memory
Shown(m) == <<m.text, m.role, m.timestamp>>
Stored(p) == <<p.rec.text, p.rec.role, p.rec.timestamp>>

\* C7: store_memory called with an embedding whose length is not D fails and
\* indexes no record.
C7_DimensionError ==
    [][(op'.name = "store_memory" /\ op'.args[3].len # D) =>
          (~ret'.ok /\ points' = points)]_vars

\* C8 as claimed: a successful search_similar(e, limit >= 1) returns every
\* stored record whose embedding is e as its first result, with the text,
\* role and timestamp stored.
C8_ExactMatchFirst ==
    [][(op'.name = "search_similar" /\ ret'.ok /\ op'.args[2] >= 1) =>
          \A i \in 1..Len(points) :
              points[i].vector = op'.args[1] =>
                  /\ Len(ret'.val) >= 1
                  /\ Shown(Head(ret'.val)) = Stored(points[i])]_vars

\* C8 amended: the same, for a stored record that every other stored record
\* scores strictly below against e.
C8_UniqueBestFirst ==
    [][(op'.name = "search_similar" /\ ret'.ok /\ op'.args[2] >= 1) =>
          \A i \in 1..Len(points) :
              (/\ points[i].vector = op'.args[1]
               /\ \A j \in 1..Len(points) :
                     j # i => ~ScoreGE(points[j].vector.v, points[i].vector.v,
                                       op'.args[1].v))
              => /\ Len(ret'.val) >= 1
                 /\ Shown(Head(ret'.val)) = Stored(points[i])]_vars

\* two records stored, a search with the embedding of the second, which
\* the first scores strictly below, has returned the second one first
C8_Witness ==
    /\ op.name = "search_similar"
    /\ ret.ok
    /\ op.args[2] >= 1
    /\ Len(points) = 2
    /\ points[2].vector = op.args[1]
    /\ ~ScoreGE(points[1].vector.v, points[2].vector.v, op.args[1].v)
    /\ Stored(points[1]) # Stored(points[2])
    /\ Len(ret.val) >= 1
    /\ Shown(Head(ret.val)) = Stored(points[2])

\* the stored record behind a hit
PointOf(id) == CHOOSE p \in {points[i] : i \in 1..Len(points)} : p.id = id

RECURSIVE HitsOfSession(_, _)
HitsOfSession(hits, s) ==
    IF hits = <<>> THEN <<>>
    ELSE (IF PointOf(Head(hits).id).rec.session_id = s
          THEN <<Stored(PointOf(Head(hits).id))>> ELSE <<>>)
         \o HitsOfSession(Tail(hits), s)

\* C10: search_by_session(s) returns exactly the candidates (the hits of the
\* zero-vector search with limit 100) that were stored under session id s.
C10_SessionFilter ==
    [][(op'.name = "search_by_session" /\ ret'.ok) =>
          /\ Len(ret'.hits) <= SessionSearchLimit
          /\ [i \in 1..Len(ret'.val) |-> Shown(ret'.val[i])]
                = HitsOfSession(ret'.hits, op'.args[1])]_vars

(***************************************************************************)
(* Properties of the chunker                                               *)
(***************************************************************************)
\* C4: a text of W words without page marker, chunked with chunk_size >= 1,
\* gives ceil(W / chunk_size) chunks; every chunk but the last has exactly
\* chunk_size words and the last has between 1 and chunk_size words.
C4_ChunkCount ==
    (IsSome(chunk_out) /\ Len(chunk_in.text.segs) = 1 /\ chunk_in.chunk_size >= 1) =>
        LET W == chunk_in.text.segs[1]
            size == chunk_in.chunk_size
            chunks == Unwrap(chunk_out)
            n == Len(chunks)
        IN  /\ n = (W + size - 1) \div size
            /\ \A k \in 1..n :
                  IF k < n THEN WordsOf(chunks[k].text) = size
                  ELSE /\ WordsOf(chunks[k].text) >= 1
                       /\ WordsOf(chunks[k].text) <= size

\* the scenario: 2500 words at chunk_size 1000 give sizes 1000, 1000, 500
C4_Witness ==
    /\ IsSome(chunk_out)
    /\ chunk_in.text.segs = <<ScenarioWords>>
    /\ chunk_in.chunk_size = DefaultChunkSize
    /\ [k \in 1..Len(Unwrap(chunk_out)) |-> WordsOf(Unwrap(chunk_out)[k].text)]
          = <<DefaultChunkSize, DefaultChunkSize, ScenarioWords - (2 * DefaultChunkSize)>>

(***************************************************************************)
(* Properties of the chunk cache                                           *)
(***************************************************************************)
\* C2: after any sequence of process_document calls and cache lookups the
\* chunk cache holds at most 100 entries.
C2_CacheBound == Len(chunk_cache) <= CacheCapacity

\* the cache is full and a key that was cached is no longer in it
C2_Witness ==
    /\ op.name = "collect"
    /\ Len(chunk_cache) = CacheCapacity
    /\ \E i \in 1..Len(touched) : touched[i] \notin CachedKeys

\* the key in the cache that was touched (inserted, overwritten or looked
\* up with a hit) the longest ago
LeastRecentlyTouched ==
    LET i == CHOOSE i \in 1..Len(touched) :
                 /\ touched[i] \in CachedKeys
                 /\ \A j \in 1..(i - 1) : touched[j] \notin CachedKeys
    IN  touched[i]

\* C3: when a chunk is cached under a key that is not in the cache while the
\* cache holds 100 entries, exactly one entry leaves the cache, it is the
\* least recently touched one, and all other entries stay as they were.
C3_EvictsLeastRecent ==
    [][(/\ op'.name = "collect"
        /\ call.pc = "collect"
        /\ call.k <= Len(call.chunks)
        /\ call.tasks[call.k].pc = "ok"
        /\ KeyOf(call.chunks[call.k]) \notin CachedKeys
        /\ Len(chunk_cache) = CacheCapacity)
       => /\ CachedKeys' = (CachedKeys \ {LeastRecentlyTouched})
                              \cup {KeyOf(call.chunks[call.k])}
          /\ \A key \in CachedKeys \ {LeastRecentlyTouched} :
                EntryOf(chunk_cache', key) = EntryOf(chunk_cache, key)]_vars

\* the first eviction ever has just happened, and it took the chunk of
\* page 2 because the older chunk of page 1 had been touched since
C3_Witness ==
    /\ op.name = "collect"
    /\ Len(chunk_cache) = CacheCapacity
    /\ Len(touched) = CacheCapacity + 1
    /\ Head(chunk_cache).key = touched[Len(touched)]
    /\ Head(chunk_cache).key # Key(1, 0)
    /\ Key(1, 0) \in CachedKeys
    /\ touched[1] = Key(2, 0)
    /\ Key(2, 0) \notin CachedKeys

(***************************************************************************)
(* Properties of process_document                                          *)
(***************************************************************************)
\* the embedding the backend returned for chunk i of the call in progress
Returned(c, i) ==
    IF c.emb_res[i] = "ok" THEN Some(Emb(c.chunks[i].text)) ELSE None

\* C5: the embedding attached to a chunk, in process_chunk's arguments, in the
\* cached entry, in its insights and in its point, is the embedding the
\* backend returned for that chunk's own text.
C5_OwnEmbedding ==
    /\ call.pc \in {"chunks", "collect", "upsert"} =>
          /\ \A i \in DOMAIN call.tasks : call.tasks[i].embedding = Returned(call, i)
          /\ \A p \in DOMAIN call.points_to_store :
                call.points_to_store[p].vector = Emb(call.points_to_store[p].text)
          /\ \A a \in DOMAIN call.all_insights :
                IsSome(call.all_insights[a].embedding) =>
                    Unwrap(call.all_insights[a].embedding)
                        = Emb(call.all_insights[a].text.from)
    /\ \A e \in DOMAIN chunk_cache :
          IsSome(chunk_cache[e].val.embedding) =>
              Unwrap(chunk_cache[e].val.embedding) = Emb(chunk_cache[e].val.chunk.text)

\* process_document has just returned
ProcessReturned ==
    /\ call.pc = "idle"
    /\ op.name \in {"collect", "upsert_returns"}

\* C6: when the embedding call fails for k of the n chunks (completions and
\* the upsert succeeding), process_document returns the insights of all n
\* chunks, n - k vectors are upserted, and the chunks left out of the upsert
\* are exactly those whose embedding failed.
C6_FailedChunksLeftOut ==
    (/\ ProcessReturned
     /\ \A i \in DOMAIN ret.call.tasks : ret.call.tasks[i].pc = "ok"
     /\ ret.call.upsert # "err")
    => LET c == ret.call
           n == Len(c.chunks)
           failed == {i \in 1..n : c.emb_res[i] # "ok"}
       IN  /\ ret.ok
           /\ \A i \in 1..n :
                 Cardinality({a \in DOMAIN ret.val : ret.val[a].text.from = c.chunks[i].text})
                    = c.tasks[i].insights
           /\ Len(c.points_to_store) = n - Cardinality(failed)
           /\ {c.points_to_store[p].chunk : p \in DOMAIN c.points_to_store}
                 = {c.chunks[i].chunk_index : i \in (1..n) \ failed}

\* C9: for a chunk whose key was in the cache when process_document was
\* called, no embedding call and no completion call is made.
C9_CacheHitSkipsCalls ==
    call.pc # "idle" =>
        \A i \in DOMAIN call.chunks :
            KeyOf(call.chunks[i]) \in call.hit_keys =>
                /\ call.emb_res[i] = "none"
                /\ call.tasks[i].pc = "new"

(***************************************************************************)
(* Properties of parse_insights_response                                   *)
(***************************************************************************)
\* C11: the parser returns a list, possibly empty, for every response and
\* never an error.
C11_ParserNeverFails ==
    IsSome(parse_out) => Unwrap(parse_out).ok

\* a response that is not JSON, even inside brackets, came back as a list
C11_Witness ==
    /\ IsSome(parse_out)
    /\ ~from_str(cleaned_response(parse_in.response)).ok
    /\ ~from_str(fixed_response(cleaned_response(parse_in.response))).ok
    /\ Unwrap(parse_out).ok
    /\ Unwrap(parse_out).val # <<>>

\* one insight per object, in order, with the text and relevance of the object
Expected(array) ==
    [i \in 1..Len(array) |->
        [text |-> array[i].text, relevance |-> array[i].relevance,
         embedding |-> None, metadata |-> None]]

SameAsPlain ==
    /\ Unwrap(parse_out) = parse_insights_response(RenderArray(parse_in.array, DQ))
    /\ Unwrap(parse_out) = Ok(Expected(parse_in.array))

\* C12 as stated: an array of {text, relevance} objects written with single
\* quotes inside a json code fence parses to the same insights as the plain
\* double-quoted array, one insight per object with its text and relevance.
C12_FencedSingleQuoted ==
    (IsSome(parse_out) /\ parse_in.style = "fenced") => SameAsPlain

NoQuoteInside(array) ==
    \A i \in 1..Len(array) : \A k \in 1..Len(array[i].text) :
        array[i].text[k] \notin {SQ, DQ}

\* C12 amended: the same, for arrays none of whose texts contains a single or
\* a double quote.
C12_FencedSingleQuotedPlainTexts ==
    (IsSome(parse_out) /\ parse_in.style = "fenced" /\ NoQuoteInside(parse_in.array))
        => SameAsPlain

\* the fenced single-quoted array with one object, text 'a' and relevance
\* 0.9, gave one insight with text "a" and relevance 0.9
C12_Witness ==
    /\ IsSome(parse_out)
    /\ parse_in.style = "fenced"
    /\ parse_in.array = <<[text |-> <<"a">>, relevance |-> "0.9"]>>
    /\ Unwrap(parse_out) = Ok(<<[text |-> <<"a">>, relevance |-> "0.9",
                                 embedding |-> None, metadata |-> None]>>)

(***************************************************************************)
(* Properties of the chunk list                                            *)
(***************************************************************************)
\* C13: in the list create_chunks returns, the k-th chunk (from 0) has
\* chunk_index k: indexes go up by one along the whole document and do not
\* restart at a page boundary.
C13_GlobalChunkIndex ==
    IsSome(chunk_out) =>
        \A k \in 1..Len(Unwrap(chunk_out)) : Unwrap(chunk_out)[k].chunk_index = k - 1

\* a chunk list that goes over a page boundary, the index going on
C13_Witness ==
    /\ IsSome(chunk_out)
    /\ \E k \in 1..(Len(Unwrap(chunk_out)) - 1) :
          /\ Unwrap(chunk_out)[k].page_number < Unwrap(chunk_out)[k + 1].page_number
          /\ Unwrap(chunk_out)[k].chunk_index >= 1
          /\ Unwrap(chunk_out)[k + 1].chunk_index = Unwrap(chunk_out)[k].chunk_index + 1

\* C14: a page segment without words yields no chunk: no chunk has an empty
\* text, every chunk comes from a segment that has words, and a text without
\* any word yields the empty list.
C14_NoEmptyChunk ==
    IsSome(chunk_out) =>
        /\ \A k \in 1..Len(Unwrap(chunk_out)) :
              /\ WordsOf(Unwrap(chunk_out)[k].text) >= 1
              /\ chunk_in.text.segs[Unwrap(chunk_out)[k].text.seg] >= 1
        /\ (\A seg \in 1..Len(chunk_in.text.segs) : chunk_in.text.segs[seg] = 0)
              => Unwrap(chunk_out) = <<>>

\* a text with an empty page before a page with words gave chunks of the
\* second page only
C14_Witness ==
    /\ IsSome(chunk_out)
    /\ Len(chunk_in.text.segs) = 2
    /\ chunk_in.text.segs[1] = 0
    /\ chunk_in.text.segs[2] >= 1
    /\ Unwrap(chunk_out) # <<>>
    /\ \A k \in 1..Len(Unwrap(chunk_out)) : Unwrap(chunk_out)[k].page_number = 2

(***************************************************************************)
(* Properties of sessions and of stored records                            *)
(***************************************************************************)
\* the ids handed out so far
CreatedIds == {Uuid(n) : n \in 1..nextUuid}

\* a step in which start_new_session runs, called directly or by
\* get_or_create_session
StartsSession ==
    /\ op'.name \in {"start_new_session", "get_or_create_session"}
    /\ nextUuid' # nextUuid

\* C15: every call of start_new_session, from NoSession or from Active,
\* installs as current a session whose id differs from every id created
\* before and returns that id; the manager never goes back to NoSession.
C15_FreshSession ==
    [][/\ StartsSession =>
            /\ IsSome(current_session')
            /\ Unwrap(current_session').id = ret'.val
            /\ ret'.ok
            /\ ret'.val \notin CreatedIds
            /\ IsSome(current_session) => Unwrap(current_session).id # ret'.val
       /\ op'.name = "start_new_session" => StartsSession
       /\ IsSome(current_session) => IsSome(current_session')]_vars

\* start_new_session has just replaced an Active session
C15_Witness ==
    /\ op.name = "start_new_session"
    /\ nextUuid >= 2
    /\ IsSome(current_session)
    /\ Unwrap(current_session).id = Uuid(nextUuid)
    /\ ret = Ok(Uuid(nextUuid))

\* C16: every record store_memory writes carries as session_id the id of
\* the session current at the call, or "default" when no session was started.
C16_StoredSessionId ==
    [][(op'.name = "store_memory" /\ ret'.ok) =>
          /\ Len(points') = Len(points) + 1
          /\ points'[Len(points')].payload["session_id"] =
                QdrantValue(JString(IF IsSome(current_session)
                                    THEN Unwrap(current_session).id
                                    ELSE DefaultSessionId))]_vars

\* a record was stored under a started session, with the id of that session
C16_Witness ==
    /\ op.name = "store_memory"
    /\ ret.ok
    /\ IsSome(current_session)
    /\ points[Len(points)].payload["session_id"].v = Unwrap(current_session).id

(***************************************************************************)
(* Properties of search_similar and get_recent_memories                    *)
(***************************************************************************)
\* a hit whose payload holds a string text, a timestamp string that is a date
\* and a string role
Decodable(hit) ==
    /\ {"text", "timestamp", "role"} \subseteq DOMAIN hit.payload
    /\ hit.payload["text"].kind = "String"
    /\ hit.payload["timestamp"].kind = "String"
    /\ Len(hit.payload["timestamp"].v) = 2
    /\ hit.payload["timestamp"].v[1] = "rfc3339"
    /\ hit.payload["role"].kind = "String"

\* memory m is hit h decoded
MemoryOfHit(m, h) ==
    /\ m.text = h.payload["text"].v
    /\ m.timestamp = h.payload["timestamp"].v[2]
    /\ m.role = h.payload["role"].v

\* C17: search_similar returns, in the ranking order of the index, exactly
\* the hits whose payload holds a string text, a parseable timestamp and a
\* string role; the other hits are dropped and the call still succeeds: its
\* only error is the failure of the search itself.
C17_DropsUndecodable ==
    op.name = "search_similar" =>
        IF ret.ok
        THEN LET kept == SelectSeq(ret.hits, Decodable)
             IN  /\ Len(ret.val) = Len(kept)
                 /\ \A i \in 1..Len(kept) : MemoryOfHit(ret.val[i], kept[i])
        ELSE ret.val = "Failed to search memories"

\* a search ranked an undecodable hit before a decodable one and returned
\* the decodable one alone
C17_Witness ==
    /\ op.name = "search_similar"
    /\ ret.ok
    /\ Len(ret.hits) = 2
    /\ ~Decodable(ret.hits[1])
    /\ Decodable(ret.hits[2])
    /\ Len(ret.val) = 1
    /\ MemoryOfHit(ret.val[1], ret.hits[2])

\* sequence a is a reordering of sequence b
Reordering(a, b) ==
    /\ Len(a) = Len(b)
    /\ \E f \in [1..Len(a) -> 1..Len(a)] :
          /\ \A i, j \in 1..Len(a) : i # j => f[i] # f[j]
          /\ \A i \in 1..Len(a) : a[i] = b[f[i]]

\* C18: get_recent_memories(limit) returns at most limit records, ordered by
\* timestamp from newest to oldest (non-increasing), and they are the
\* decodable hits of one search with the all-zero vector of length D.
C18_RecentNewestFirst ==
    (op.name = "get_recent_memories" /\ ret.ok) =>
        /\ Len(ret.val) <= op.args[1]
        /\ \A i, j \in 1..Len(ret.val) :
              i < j => ret.val[i].timestamp >= ret.val[j].timestamp
        /\ \E r \in Rankings(ZeroVector(D)) :
              ret.hits = search_vectors(r, op.args[1])
        /\ Reordering(ret.val, FilterMapDecode(ret.hits))

\* the index ranked an older record before a newer one and the result
\* lists the newer one first
C18_Witness ==
    /\ op.name = "get_recent_memories"
    /\ ret.ok
    /\ Len(ret.hits) = 2
    /\ Len(ret.val) = 2
    /\ MemoryOfHit(ret.val[1], ret.hits[2])
    /\ MemoryOfHit(ret.val[2], ret.hits[1])
    /\ ret.val[1].timestamp > ret.val[2].timestamp

(***************************************************************************)
(* Properties of process_document when the batch upsert fails              *)
(***************************************************************************)
\* the insights process_chunk produced for the first i chunks of call c, in
\* chunk order
RECURSIVE ExtractedUpTo(_, _)
ExtractedUpTo(c, i) ==
    IF i = 0 THEN <<>>
    ELSE ExtractedUpTo(c, i - 1)
         \o (IF c.tasks[i].pc = "ok"
             THEN ChunkInsights(c.chunks[i], c.tasks[i].insights, c.tasks[i].embedding,
                                c.metadata)
             ELSE <<>>)

\* C19: when the batch upsert of the chunk vectors fails, process_document
\* still returns Ok with all the insights it extracted, and every chunk it
\* cached during the call is still in the cache with the entry it cached.
C19_UpsertFailureKeepsAll ==
    (ProcessReturned /\ ret.call.upsert = "err") =>
        LET c == ret.call
        IN  /\ ret.ok
            /\ ret.val = ExtractedUpTo(c, Len(c.chunks))
            /\ \A i \in 1..Len(c.chunks) :
                  c.tasks[i].pc = "ok" =>
                      LruValue(chunk_cache, KeyOf(c.chunks[i]))
                         = Some([chunk |-> c.chunks[i],
                                 embedding |-> c.tasks[i].embedding,
                                 insights |-> ChunkInsights(c.chunks[i],
                                                 c.tasks[i].insights,
                                                 c.tasks[i].embedding,
                                                 c.metadata)])

\* a call that extracted an insight and built a point has returned after
\* its upsert failed
C19_Witness ==
    /\ ProcessReturned
    /\ ret.call.upsert = "err"
    /\ ret.call.points_to_store # <<>>
    /\ ret.val # <<>>
    /\ \E i \in 1..Len(ret.call.chunks) :
          /\ ret.call.tasks[i].pc = "ok"
          /\ HasKey(chunk_cache, KeyOf(ret.call.chunks[i]))

(***************************************************************************)
(* Properties of build_conversation_context                                *)
(***************************************************************************)
\* build_conversation_context has just returned a context
ContextBuilt == op.name = "build_conversation_context" /\ ret.ok

\* the recent lines of a context: the lines between its first line and its
\* first blank line
RecentLines(context) ==
    LET blank == CHOOSE i \in 1..Len(context) :
                    /\ context[i] = Blank
                    /\ \A j \in 1..(i - 1) : context[j] # Blank
    IN  SubSeq(context, 2, blank - 1)

RelevantLines(context, recent_memories) ==
    SubSeq(context, Len(recent_memories) + 4, Len(context))

WasTruncated == ContextBuilt /\ ret.val # ret.full

\* C22: when the rendered context is longer than the budget of 4000, the
\* context returned is the complete Recent section, every recent line
\* unchanged whatever the texts contain, followed by the truncation
\* placeholder; when it is within the budget it is returned unchanged.
C22_TruncationKeepsRecent ==
    ContextBuilt =>
        IF ContextBytes(ret.full) > MaxContextLength
        THEN ret.val = SubSeq(ret.full, 1, Len(ret.recent) + 1)
                          \o <<Blank, HeaderTruncated>>
        ELSE ret.val = ret.full

\* C27: the context returned is never longer than the budget of 4000.
C27_ContextBounded ==
    ContextBuilt => ContextBytes(ret.val) <= MaxContextLength

(***************************************************************************)
(* Frame of a failed store                                                 *)
(***************************************************************************)
\* C23: a store_memory call that fails, because the index refuses the
\* vector for its length or because the request fails, returns the error and
\* changes neither the current session (id, start_time, topic, summary,
\* last_active) nor any entry of the chunk cache; a vector whose length is
\* not the collection's is always refused.
C23_FailedStoreFrame ==
    [][op'.name = "store_memory" =>
          /\ op'.args[3].len # collDim => ~ret'.ok
          /\ ~ret'.ok =>
                /\ ret'.val = "Failed to store memory"
                /\ current_session' = current_session
                /\ chunk_cache' = chunk_cache
                /\ points' = points]_vars

\* a store has failed for the length of its vector while a session was
\* current and a chunk was cached
C23_Witness ==
    /\ op.name = "store_memory"
    /\ ~ret.ok
    /\ op.args[3].len # collDim
    /\ IsSome(current_session)
    /\ chunk_cache # <<>>

\* C24: no task holds the lock around the current session (the Mutex of
\* ChatManager or the RwLock of the HTTP state) while it awaits a network
\* call or another lock.
C24_LocksAreLeaf ==
    \A t \in DOMAIN chats :
        (memory_lock = Some(t) \/ state_memory = Some(t)) =>
            chats[t].pc \notin (AwaitsNetwork \cup AwaitsLock)

\* C28: a turn that chat() stores goes under the session id that
\* get_or_create_session returned to that call.
C28_TurnsUnderOwnSession ==
    [][\A t \in DOMAIN chats :
          (/\ chats[t].kind = "chat"
           /\ chats[t].pc \in {"store_user", "store_assistant"}
           /\ chats'[t].pc \in {"lock_context", "done"})
          => points'[Len(points')].rec.session_id = Unwrap(chats[t].session_id)]_vars

(***************************************************************************)
(* Properties of process_document over a long document                     *)
(***************************************************************************)
\* the embedding requests of call c that have been sent and not answered:
\* those of the current batch, then one per process_chunk future that is
\* inside the loop of extract_insights
EmbeddingsInFlight(c) ==
    IF c.pc = "embedding"
    THEN Cardinality({i \in DOMAIN c.emb_res : c.emb_res[i] = "pending"})
    ELSE IF c.pc = "chunks"
    THEN Cardinality({i \in DOMAIN c.tasks : c.tasks[i].pc = "insight_embed"})
    ELSE 0

\* C25: during one process_document call at most 20 embedding requests are
\* in flight at any moment.
C25_EmbeddingFanOut == EmbeddingsInFlight(call) <= BatchSize

\* C26: every insight process_document returns carries in its metadata the
\* page_number and the chunk_index of the chunk it was extracted from,
\* whatever metadata the caller gave.
C26_InsightProvenance ==
    ProcessReturned =>
        \A k \in DOMAIN ret.val :
            \E i \in DOMAIN ret.call.chunks :
                /\ ret.call.chunks[i].text = ret.val[k].text.from
                /\ ret.val[k].metadata["page"] = ret.call.chunks[i].page_number
                /\ ret.val[k].metadata["chunk"] = ret.call.chunks[i].chunk_index

(***************************************************************************)
(* Properties of process_document when completions fail                    *)
(***************************************************************************)
\* a sequence without its i-th element
Drop(seq, i) == SubSeq(seq, 1, i - 1) \o SubSeq(seq, i + 1, Len(seq))

\* what process_document computes from the chunks, the outcomes res of their
\* batch embedding calls and the ends of their process_chunk futures: the
\* embedding given to chunk t, the insights returned and the points built
RunEmbedding(chunks, res, t) ==
    ChunkEmbedding(OkEmbeddings(chunks, res, 1, Len(chunks)), t)

RECURSIVE RunInsights(_, _, _, _, _)
RunInsights(chunks, res, ends, metadata, n) ==
    IF n = 0 THEN <<>>
    ELSE RunInsights(chunks, res, ends, metadata, n - 1)
         \o (IF ends[n].pc = "ok"
             THEN ChunkInsights(chunks[n], ends[n].insights,
                                RunEmbedding(chunks, res, n), metadata)
             ELSE <<>>)

RECURSIVE RunPoints(_, _, _, _)
RunPoints(chunks, res, ends, n) ==
    IF n = 0 THEN <<>>
    ELSE RunPoints(chunks, res, ends, n - 1)
         \o (IF ends[n].pc = "ok" /\ IsSome(RunEmbedding(chunks, res, n))
             THEN <<ChunkPoint(chunks[n], Unwrap(RunEmbedding(chunks, res, n)))>>
             ELSE <<>>)

\* C29: process_document returns Ok whatever calls failed, and for a chunk
\* whose completion failed the insights returned, the points built and the
\* entries cached are those of the same call over the other chunks alone.
C29_FailedCompletionIsolated ==
    ProcessReturned =>
        LET c == ret.call
        IN  /\ ret.ok
            /\ \A i \in DOMAIN c.chunks :
                  c.tasks[i].pc = "err" =>
                     LET chunks == Drop(c.chunks, i)
                         res == Drop(c.emb_res, i)
                         ends == Drop(c.tasks, i)
                     IN  /\ ret.val = RunInsights(chunks, res, ends, c.metadata,
                                                  Len(chunks))
                         /\ c.points_to_store = RunPoints(chunks, res, ends, Len(chunks))
                         /\ \A t \in DOMAIN chunks :
                               ends[t].pc = "ok" =>
                                  LruValue(chunk_cache, KeyOf(chunks[t]))
                                     = Some([chunk |-> chunks[t],
                                             embedding |-> RunEmbedding(chunks, res, t),
                                             insights |->
                                                 ChunkInsights(chunks[t], ends[t].insights,
                                                     RunEmbedding(chunks, res, t),
                                                     c.metadata)])

(***************************************************************************)
(* Properties of the topic cache                                           *)
(***************************************************************************)
\* C30: the topic cache never holds two entries added as unique of which
\* one is, case set aside, a substring of the other.
C30_UniqueTopicsDisjoint ==
    \A a, b \in DOMAIN topic_cache :
        (a # b /\ topic_cache[a].unique /\ topic_cache[b].unique) =>
            ~contains(to_lowercase(topic_cache[a].topic),
                      to_lowercase(topic_cache[b].topic))

====
